---------------------------- MODULE Spec2Model ----------------------------
(***************************************************************************)
(* TempMon: rolling device statistics (collectors/cpu_collector.rs,        *)
(* collectors/gpu_collector.rs) and the buffered, date-rotating CSV log    *)
(* store (utils/csv_logger.rs).                                            *)
(*                                                                         *)
(* f32 sensor values are modelled as integers in the unit of the precision *)
(* the code rounds the matching average to: CPU temperature in tenths of a *)
(* degree, CPU usage in hundredths of a percent, GPU temperatures in       *)
(* hundredths of a degree.                                                 *)
(***************************************************************************)
EXTENDS Integers, Sequences, FiniteSets, TLC

VARIABLES
    cpu_data,   \* CpuData: first_run, temp*, usage* (cpu_collector.rs:6-24)
    gpu_data,   \* GpuData: first_run, core_temp*, memory_junction_temp*
    fed,        \* history of the program's inputs: every sample handed to each DeviceStats
    pending,    \* query tasks of the current poll cycle that have not completed
    logger,     \* CsvLogger: wtr, path, timestamp, write_buffer_size, write_buffer, graph_data_buffer
    fs,         \* the file system: existing path -> lines of the file
    today,      \* the calendar day Local::now() reports
    issued,     \* every entry ever passed to CsvLogger::write, in call order
    last,       \* the last CsvLogger call: op, res, its number n, the entries passed, the I/O failure it met
    faults,     \* I/O failures injected so far
    deletions,  \* log files deleted by the user so far
    foreign,    \* files of the logs directory the running store did not write: name -> lines
    log_files,  \* HistoricalTab::log_files: the index the last directory scan built
    scan,       \* the last directory scan: its number n, the failure it met, the files it listed
    points,     \* the series handed to split_into_segments
    segments,   \* what split_into_segments returned for it: <<result>>, <<>> before the call
    unit,       \* Settings::selected_temp_units
    cpu_sensors, \* the names of the CPU's temperature sensors, in the order the client lists them
    gpus,       \* TempMon::gpu_data: one GpuData per GPU of the hardware monitor
    tasks,      \* the query tasks in flight
    queue,      \* the messages waiting for TempMon::update, in arrival order
    running,    \* the messages TempMon::update is handling
    trail,      \* history of the poll cycles: ticks, completed tasks, applied messages, panics,
                \* the Celsius reading behind every logged entry
    last_error, \* TempMon::last_error: "None" or "Some"
    plot_window \* PlotWindow: the widgets of the three live graphs

statsVars == <<cpu_data, gpu_data, fed, pending>>

logVars == <<logger, fs, today, issued, last, faults, deletions>>

indexVars == <<foreign, log_files, scan, points, segments>>

pollVars == <<unit, cpu_sensors, gpus, tasks, queue, running, trail>>

viewVars == <<last_error, plot_window>>

extVars == <<indexVars, pollVars, viewVars>>

vars == <<cpu_data, gpu_data, fed, pending, logger, fs, today, issued, last, faults, deletions,
          foreign, log_files, scan, points, segments, unit, cpu_sensors, gpus, tasks, queue, running, trail,
          last_error, plot_window>>

---------------------------------------------------------------------------
(* Bounds *)

MaxUpdates == 5          \* updates per behaviour of SpecStats
MaxWindowUpdates == 32   \* poll cycles per behaviour of SpecWindow
MaxVarying == 2          \* in SpecWindow a sensor settles after this many readings

(* Program constants *)

TEMP_AVG_WINDOW_SIZE == 30
USAGE_AVG_WINDOW_SIZE == 30

(* Sensor readings the environment can produce *)

TempSamples == {-50, 400, 700}          \* tenths of a degree Celsius
UsageSamples == {500, 9000}             \* hundredths of a percent
GpuSamples ==                           \* hundredths of a degree Celsius
    { [core_temp |-> -500, memory_junction_temp |-> 0],
      [core_temp |-> 4000, memory_junction_temp |-> 6000],
      [core_temp |-> 7000, memory_junction_temp |-> -500] }

---------------------------------------------------------------------------
(* f32 helpers *)

F32Max(a, b) == IF a >= b THEN a ELSE b

F32Min(a, b) == IF a <= b THEN a ELSE b

\* f32::round of n/d: to nearest, ties away from zero (d > 0)
RoundDiv(n, d) ==
    IF n >= 0 THEN (2 * n + d) \div (2 * d)
              ELSE -((2 * (-n) + d) \div (2 * d))

RECURSIVE SumSeq(_)
SumSeq(s) == IF s = <<>> THEN 0 ELSE Head(s) + SumSeq(Tail(s))

\* Vec::push followed by `if len > cap { remove(0) }`
PushEvict(hist, x, cap) ==
    LET pushed == Append(hist, x)
    IN  IF Len(pushed) > cap THEN Tail(pushed) ELSE pushed

\* the last n elements of s (all of s when it is shorter)
LastN(s, n) ==
    IF Len(s) <= n THEN s ELSE SubSeq(s, Len(s) - n + 1, Len(s))

---------------------------------------------------------------------------
(* CpuData *)

CpuDataNew(usage0) ==
    [ first_run |-> TRUE,
      temp |-> 0, temp_min |-> 0, temp_max |-> 0, temp_avg |-> <<>>,
      usage |-> usage0, usage_min |-> usage0, usage_max |-> usage0,
      usage_avg |-> <<>> ]

\* update_lhm_data with `temp_max = temp` in place of `temp_max.max(temp)`
CpuUpdateLhmData_MaxOverwritten(t) ==
    LET seeded_min == IF cpu_data.first_run THEN t ELSE cpu_data.temp_min
    IN  /\ cpu_data' = [cpu_data EXCEPT
              !.first_run = FALSE,
              !.temp = t,
              !.temp_max = t,
              !.temp_min = F32Min(seeded_min, t),
              !.temp_avg = PushEvict(cpu_data.temp_avg, t, TEMP_AVG_WINDOW_SIZE)]
        /\ fed' = [fed EXCEPT !.cpu_temp = Append(@, t)]
        /\ UNCHANGED gpu_data

\* CpuData::update_lhm_data(temps): temps.0 is the package temperature
CpuUpdateLhmData(t) ==
    LET seeded_min == IF cpu_data.first_run THEN t ELSE cpu_data.temp_min
    IN  /\ cpu_data' = [cpu_data EXCEPT
              !.first_run = FALSE,
              !.temp = t,
              !.temp_max = F32Max(cpu_data.temp_max, t),
              !.temp_min = F32Min(seeded_min, t),
              !.temp_avg = PushEvict(cpu_data.temp_avg, t, TEMP_AVG_WINDOW_SIZE)]
        /\ fed' = [fed EXCEPT !.cpu_temp = Append(@, t)]
        /\ UNCHANGED gpu_data

\* CpuData::update(sys): sys.global_cpu_usage() is the usage sample
CpuUpdate(u) ==
    /\ cpu_data' = [cpu_data EXCEPT
          !.usage = u,
          !.usage_max = F32Max(cpu_data.usage_max, u),
          !.usage_min = F32Min(cpu_data.usage_min, u),
          !.usage_avg = PushEvict(cpu_data.usage_avg, u, USAGE_AVG_WINDOW_SIZE)]
    /\ fed' = [fed EXCEPT !.cpu_usage = Append(@, u)]
    /\ UNCHANGED gpu_data

\* CpuData::get_temp_avg, in tenths of a degree
get_temp_avg(c) ==
    IF c.temp_avg = <<>> THEN c.temp
    ELSE RoundDiv(SumSeq(c.temp_avg), Len(c.temp_avg))

\* CpuData::get_usage_avg, in hundredths of a percent
get_usage_avg(c) ==
    IF c.usage_avg = <<>> THEN c.usage
    ELSE RoundDiv(SumSeq(c.usage_avg), Len(c.usage_avg))

---------------------------------------------------------------------------
(* GpuData *)

GpuDataNew ==
    [ first_run |-> TRUE,
      core_temp |-> 0, core_temp_max |-> 0, core_temp_min |-> 0,
      core_temp_avg |-> <<>>,
      memory_junction_temp |-> 0, memory_junction_temp_max |-> 0,
      memory_junction_temp_min |-> 0, memory_junction_temp_avg |-> <<>> ]

\* GpuData::update_lhm_data(data): the histories are pushed to and never trimmed
GpuUpdateLhmData(data) ==
    LET seed == gpu_data.first_run
        cmax == IF seed THEN data.core_temp ELSE gpu_data.core_temp_max
        cmin == IF seed THEN data.core_temp ELSE gpu_data.core_temp_min
        mmax == IF seed THEN data.memory_junction_temp
                        ELSE gpu_data.memory_junction_temp_max
        mmin == IF seed THEN data.memory_junction_temp
                        ELSE gpu_data.memory_junction_temp_min
    IN  /\ gpu_data' = [gpu_data EXCEPT
              !.first_run = FALSE,
              !.core_temp = data.core_temp,
              !.memory_junction_temp = data.memory_junction_temp,
              !.core_temp_max = F32Max(cmax, data.core_temp),
              !.core_temp_min = F32Min(cmin, data.core_temp),
              !.memory_junction_temp_max = F32Max(mmax, data.memory_junction_temp),
              !.memory_junction_temp_min = F32Min(mmin, data.memory_junction_temp),
              !.core_temp_avg = Append(gpu_data.core_temp_avg, data.core_temp),
              !.memory_junction_temp_avg =
                  Append(gpu_data.memory_junction_temp_avg, data.memory_junction_temp)]
        /\ fed' = [fed EXCEPT !.gpu_core = Append(@, data.core_temp),
                              !.gpu_mj = Append(@, data.memory_junction_temp)]
        /\ UNCHANGED cpu_data

\* GpuData::get_core_temp_avg, in hundredths of a degree (history non-empty)
get_core_temp_avg(g) == RoundDiv(SumSeq(g.core_temp_avg), Len(g.core_temp_avg))

\* GpuData::get_memory_junction_temp_avg, in hundredths of a degree
get_memory_junction_temp_avg(g) ==
    RoundDiv(SumSeq(g.memory_junction_temp_avg), Len(g.memory_junction_temp_avg))

---------------------------------------------------------------------------
(* CsvLogger (utils/csv_logger.rs) *)

DEV_BUFFER_SIZE == 1
PROD_BUFFER_SIZE == 50
GRAPH_DATA_BUFFER_MAX == 1000

\* the header open_csv_writer writes to a new file: six column names
HeaderRow ==
    <<"timestamp", "component_type", "temperature_unit", "temperature", "usage", "power_draw">>

\* the fields of HardwareLogEntry in declaration order (types/hardware.rs:30-40)
EntryFields ==
    <<"timestamp", "selected_process", "component_type", "model_name",
      "temperature_unit", "temperature", "usage", "power_draw">>

\* Writer::serialize of a HardwareLogEntry with has_headers(false): one
\* record holding the struct's fields in declaration order
SerializeEntry(e) == [i \in 1..Len(EntryFields) |-> e[EntryFields[i]]]

\* the text a record left without terminator contributes to a file
JunkLine(n) == [i \in 1..n |-> "?"]

\* dir.join(format!("{}_cpu_logs.csv", date_str)) of CsvLogger::new
NewPath(dir, date) == [dir |-> dir, date |-> date, suffix |-> "_cpu_logs.csv"]

\* get_logs_dir().join(format!("{}_hardware_logs.csv", date_str)) of CsvLogger::write
RotatedPath(date) == [dir |-> "logs", date |-> date, suffix |-> "_hardware_logs.csv"]

Exists(fsys, p) == p \in DOMAIN fsys

AppendLines(fsys, p, lines) == [fsys EXCEPT ![p] = @ \o lines]

\* what a csv::Writer still holds in its internal buffer
Buffered(w) ==
    w.buf \o (IF w.fields_written > 0 THEN <<JunkLine(w.fields_written)>> ELSE <<>>)

\* Writer::flush reaching the file; a writer whose file was unlinked writes to nowhere
WriteThrough(fsys, w) ==
    IF w.attached /\ Exists(fsys, w.path) THEN AppendLines(fsys, w.path, Buffered(w)) ELSE fsys

\* impl Drop for csv::Writer: flush what is buffered, ignore the result
DropWriter(fsys, w) == WriteThrough(fsys, w)

\* WriterBuilder::new().delimiter(b';').has_headers(false).from_writer(file)
FreshWriter(p) ==
    [path |-> p, attached |-> TRUE, buf |-> <<>>, first_field_count |-> 0, fields_written |-> 0]

\* CsvLogger::open_csv_writer(path) under the I/O outcome `io`:
\* "open" fails OpenOptions::open; "header" fails the flush of the header and
\* the dropped writer's second flush succeeds; "header_lost" fails both.
\* Writing the header fixes the writer's record length at six fields.
OpenCsvWriter(fsys, p, io) ==
    LET file_exists == Exists(fsys, p)
        opened == IF file_exists THEN fsys ELSE fsys @@ (p :> <<>>)
    IN  IF io = "open" THEN [res |-> "Err", fs |-> fsys, wtr |-> FreshWriter(p), hit |-> TRUE]
        ELSE IF file_exists
             THEN [res |-> "Ok", fs |-> opened, wtr |-> FreshWriter(p), hit |-> FALSE]
        ELSE IF io = "header"
             THEN [res |-> "Err", fs |-> AppendLines(opened, p, <<HeaderRow>>),
                   wtr |-> FreshWriter(p), hit |-> TRUE]
        ELSE IF io = "header_lost"
             THEN [res |-> "Err", fs |-> opened, wtr |-> FreshWriter(p), hit |-> TRUE]
        ELSE [res |-> "Ok", fs |-> AppendLines(opened, p, <<HeaderRow>>),
              wtr |-> [FreshWriter(p) EXCEPT !.first_field_count = Len(HeaderRow)],
              hit |-> FALSE]

\* `for entry in &self.write_buffer { self.wtr.serialize(entry)?; }`
\* Writer::serialize writes the fields into the writer's buffer and then checks
\* the record length against the first record this writer wrote (flexible is
\* false): on a mismatch it returns UnequalLengths and the fields stay behind
\* without a terminator.
RECURSIVE SerializeAll(_, _)
SerializeAll(w, entries) ==
    IF entries = <<>> THEN [res |-> "Ok", wtr |-> w]
    ELSE LET row == SerializeEntry(Head(entries))
             n == w.fields_written + Len(row)
         IN  IF w.first_field_count # 0 /\ w.first_field_count # n
             THEN [res |-> "Err", wtr |-> [w EXCEPT !.fields_written = n]]
             ELSE SerializeAll([w EXCEPT !.first_field_count = n,
                                         !.fields_written = 0,
                                         !.buf = Append(@, row)],
                               Tail(entries))

\* flush_buffer clearing write_buffer before the writer is flushed
FlushBuffer_ClearsBeforeFlush(lg, fsys, io) ==
    LET missing == ~Exists(fsys, lg.path)
        op == OpenCsvWriter(fsys, lg.path, io)
    IN  IF missing /\ io = "mkdir"
        THEN [res |-> "Err", lg |-> lg, fs |-> fsys, hit |-> TRUE]
        ELSE IF missing /\ op.res = "Err"
        THEN [res |-> "Err", lg |-> lg, fs |-> op.fs, hit |-> TRUE]
        ELSE
        LET fs1 == IF missing THEN DropWriter(op.fs, lg.wtr) ELSE fsys
            w1 == IF missing THEN op.wtr ELSE lg.wtr
            ser == SerializeAll(w1, lg.write_buffer)
        IN  IF ser.res = "Err"
            THEN [res |-> "Err", lg |-> [lg EXCEPT !.wtr = ser.wtr], fs |-> fs1, hit |-> FALSE]
            ELSE IF io = "flush" /\ Buffered(ser.wtr) # <<>>
            THEN [res |-> "Err",
                  lg |-> [lg EXCEPT !.wtr = ser.wtr, !.write_buffer = <<>>],
                  fs |-> fs1, hit |-> TRUE]
            ELSE [res |-> "Ok",
                  lg |-> [lg EXCEPT !.wtr = [ser.wtr EXCEPT !.buf = <<>>],
                                    !.write_buffer = <<>>],
                  fs |-> WriteThrough(fs1, ser.wtr),
                  hit |-> FALSE]

\* CsvLogger::flush_buffer under the I/O outcome `io` ("none", "mkdir", "open",
\* "header", "header_lost", "flush"); hit tells whether that failure occurred
FlushBuffer(lg, fsys, io) ==
    LET missing == ~Exists(fsys, lg.path)
        op == OpenCsvWriter(fsys, lg.path, io)
    IN  IF missing /\ io = "mkdir"
        THEN [res |-> "Err", lg |-> lg, fs |-> fsys, hit |-> TRUE]
        ELSE IF missing /\ op.res = "Err"
        THEN [res |-> "Err", lg |-> lg, fs |-> op.fs, hit |-> TRUE]
        ELSE
        LET fs1 == IF missing THEN DropWriter(op.fs, lg.wtr) ELSE fsys
            w1 == IF missing THEN op.wtr ELSE lg.wtr
            ser == SerializeAll(w1, lg.write_buffer)
        IN  IF ser.res = "Err"
            THEN [res |-> "Err", lg |-> [lg EXCEPT !.wtr = ser.wtr], fs |-> fs1, hit |-> FALSE]
            ELSE IF io = "flush" /\ Buffered(ser.wtr) # <<>>
            THEN [res |-> "Err", lg |-> [lg EXCEPT !.wtr = ser.wtr], fs |-> fs1, hit |-> TRUE]
            ELSE [res |-> "Ok",
                  lg |-> [lg EXCEPT !.wtr = [ser.wtr EXCEPT !.buf = <<>>],
                                    !.write_buffer = <<>>],
                  fs |-> WriteThrough(fs1, ser.wtr),
                  hit |-> FALSE]

\* the graph buffer keeping its first GRAPH_DATA_BUFFER_MAX entries: new ones are dropped
GraphAppend_KeepsOldest(buffer, entries) ==
    LET all == buffer \o entries
    IN  IF Len(all) <= GRAPH_DATA_BUFFER_MAX THEN all
        ELSE SubSeq(all, 1, GRAPH_DATA_BUFFER_MAX)

\* graph_data_buffer.extend_from_slice(&entries), then drain(0..len - GRAPH_DATA_BUFFER_MAX)
GraphAppend(buffer, entries) == LastN(buffer \o entries, GRAPH_DATA_BUFFER_MAX)

\* CsvLogger::write(entries) at calendar day `now`, with the I/O failure `io`
\* at `site`: "pre" is the flush before a rotation, "rotate" the opening of
\* the new day's file, "post" the flush at the buffer threshold
Write(lg, fsys, entries, now, site, io) ==
    LET At(st) == IF site = st THEN io ELSE "none"
        rotating == now # lg.timestamp
        pre == FlushBuffer(lg, fsys, At("pre"))
        moved == [pre.lg EXCEPT !.timestamp = now, !.path = RotatedPath(now)]
        op == OpenCsvWriter(pre.fs, moved.path, At("rotate"))
    IN  IF rotating /\ pre.res = "Err"
        THEN [res |-> "Err", lg |-> pre.lg, fs |-> pre.fs, hit |-> pre.hit]
        ELSE IF rotating /\ op.res = "Err"
        THEN [res |-> "Err", lg |-> moved, fs |-> op.fs, hit |-> TRUE]
        ELSE
        LET lg1 == IF rotating THEN [moved EXCEPT !.wtr = op.wtr] ELSE lg
            fs1 == IF rotating THEN DropWriter(op.fs, pre.lg.wtr) ELSE fsys
            lg2 == [lg1 EXCEPT
                      !.graph_data_buffer = GraphAppend(@, entries),
                      !.write_buffer = @ \o entries]
            post == FlushBuffer(lg2, fs1, At("post"))
        IN  IF Len(lg2.write_buffer) >= lg2.write_buffer_size
            THEN post
            ELSE [res |-> "Ok", lg |-> lg2, fs |-> fs1, hit |-> FALSE]

\* CsvLogger::read: csv::ReaderBuilder::new().delimiter(b';').from_path(path),
\* then rdr.deserialize().  The first line is the header; a record whose length
\* differs from the header's is an UnequalLengths error, and a struct field
\* whose name is no column of the header is a missing-field error.
ColumnOf(header, name) ==
    IF \E i \in 1..Len(header) : header[i] = name
    THEN CHOOSE i \in 1..Len(header) : header[i] = name
    ELSE 0

DeserializeEntry(header, row) ==
    [f \in {EntryFields[i] : i \in 1..Len(EntryFields)} |-> row[ColumnOf(header, f)]]

Read(lg, fsys) ==
    IF ~Exists(fsys, lg.path) THEN [res |-> "Err", entries |-> <<>>]
    ELSE LET lines == fsys[lg.path]
             header == Head(lines)
             rows == Tail(lines)
         IN  IF lines = <<>> THEN [res |-> "Ok", entries |-> <<>>]
             ELSE IF \E i \in 1..Len(rows) : Len(rows[i]) # Len(header)
             THEN [res |-> "Err", entries |-> <<>>]
             ELSE IF \E i \in 1..Len(EntryFields) : ColumnOf(header, EntryFields[i]) = 0
             THEN [res |-> (IF rows = <<>> THEN "Ok" ELSE "Err"), entries |-> <<>>]
             ELSE [res |-> "Ok",
                   entries |-> [i \in 1..Len(rows) |-> DeserializeEntry(header, rows[i])]]

\* CsvLogger::new(None) on calendar day `date`.  `existed` tells whether the
\* day's file was there already (no header is written then).
CsvLoggerNew(date, existed, size) ==
    [ wtr |-> [FreshWriter(NewPath("logs", date)) EXCEPT
                 !.first_field_count = IF existed THEN 0 ELSE Len(HeaderRow)],
      path |-> NewPath("logs", date),
      timestamp |-> date,
      write_buffer_size |-> size,
      write_buffer |-> <<>>,
      graph_data_buffer |-> <<>> ]

---------------------------------------------------------------------------
(* The live graphs of the plot window (app/graphs): every refresh rebuilds *)
(* the series from CsvLogger::graph_data_buffer.  A point is <<x, y>>, x in *)
(* seconds since the graph's first timestamp.  An entry's timestamp is     *)
(* written by to_rfc3339 and read back by parse_from_rfc3339, which        *)
(* succeeds on it; timestamp() is its whole second.                        *)

window_size == 60        \* seconds shown by a live graph
right_padding == 12      \* seconds kept free right of the latest point
MinSeriesPoints == 33    \* points a series is padded to

IsCpuEntry(e) == e.component_type = "CPU"

IsGpuEntry(e) == e.component_type = "GPU"

\* Some([x_seconds, entry.<field> as f64])
PointOf(e, start_ts, field) == <<e.timestamp - start_ts, e[field]>>

\* buffer.iter().filter(CPU).filter_map(point).collect()
CpuSeries(buffer, start_ts, field) ==
    LET cpu_entries == SelectSeq(buffer, IsCpuEntry)
    IN  [k \in 1..Len(cpu_entries) |-> PointOf(cpu_entries[k], start_ts, field)]

\* gpu_entries.iter().enumerate().filter(|(idx, _)| idx % gpu_data.len() == gpu_idx)
\* .filter_map(point).collect(); gpu_idx counts from 1 here
GpuSeries(gpu_entries, gpu_count, gpu_idx, start_ts, field) ==
    LET taken == IF Len(gpu_entries) < gpu_idx THEN 0
                 ELSE (Len(gpu_entries) - gpu_idx) \div gpu_count + 1
    IN  [k \in 1..taken |->
            PointOf(gpu_entries[gpu_idx + (k - 1) * gpu_count], start_ts, field)]

\* the scrolling logic with `view_end = current_time`
XLim_NoPadding(current_time) ==
    LET view_end == current_time
    IN  IF view_end > window_size THEN <<view_end - window_size, view_end>>
        ELSE <<0, window_size>>

\* the scrolling logic: set_x_lim(view_end - window_size, view_end) or set_x_lim(0, window_size)
XLim(current_time) ==
    LET view_end == current_time + right_padding
    IN  IF view_end > window_size THEN <<view_end - window_size, view_end>>
        ELSE <<0, window_size>>

\* padding that stops one point short of the minimum
PadSeries_OneShort(series) ==
    IF series # <<>> /\ Len(series) < MinSeriesPoints
    THEN series \o [k \in 1..(MinSeriesPoints - 1 - Len(series)) |-> series[Len(series)]]
    ELSE series

\* `if series.len() < 33 { while series.len() < 33 { series.push(last_point) } }`
PadSeries(series) ==
    IF series # <<>> /\ Len(series) < MinSeriesPoints
    THEN series \o [k \in 1..(MinSeriesPoints - Len(series)) |-> series[Len(series)]]
    ELSE series

\* first_timestamp after the `is_none()` branch, Some(t) as <<t>>
FirstTimestamp(first_timestamp, buffer) ==
    IF first_timestamp = <<>> THEN <<buffer[1].timestamp>> ELSE first_timestamp

\* the widget of a graph as its constructor builds it
GraphNew ==
    [ first_timestamp |-> <<>>,
      x_lim |-> <<0, window_size>>,
      series |-> (<<"waiting for data">> :> << <<0, 0>> >>) ]

F64Max(a, b) == IF a >= b THEN a ELSE b

\* TemperatureGraph::update_data, from the baseline timestamp on
TempGraphSeries(g, start_ts, cpu_temp_series, gpu_entries, gpu_list) ==
    IF cpu_temp_series = <<>> THEN g
    ELSE LET shown == {i \in 1..Len(gpu_list) :
                          GpuSeries(gpu_entries, Len(gpu_list), i, start_ts, "temperature") # <<>>}
         IN  [g EXCEPT
               !.x_lim = XLim(cpu_temp_series[Len(cpu_temp_series)][1]),
               !.series =
                   (<<"CPU Temperature">> :> PadSeries(cpu_temp_series))
                   @@ [l \in {<<gpu_list[i].name, "Temp">> : i \in shown} |->
                         LET i == CHOOSE j \in shown : gpu_list[j].name = l[1]
                         IN  PadSeries(GpuSeries(gpu_entries, Len(gpu_list), i, start_ts,
                                                 "temperature"))]]

\* TemperatureGraph::update_data(csv_logger, units, gpu_data)
TempGraphUpdate(g, buffer, gpu_list) ==
    IF buffer = <<>> THEN g
    ELSE TempGraphSeries([g EXCEPT !.first_timestamp = FirstTimestamp(@, buffer)],
                         FirstTimestamp(g.first_timestamp, buffer)[1],
                         CpuSeries(buffer, FirstTimestamp(g.first_timestamp, buffer)[1],
                                   "temperature"),
                         SelectSeq(buffer, IsGpuEntry), gpu_list)

\* CPUPowerAndUsageGraph::update_data, from the baseline timestamp on
CpuGraphSeries(g, power_series, usage_series) ==
    IF power_series = <<>> \/ usage_series = <<>> THEN g
    ELSE [g EXCEPT
           !.x_lim = XLim(power_series[Len(power_series)][1]),
           !.series = (<<"CPU Power (W)">> :> PadSeries(power_series))
                      @@ (<<"CPU Usage (%)">> :> PadSeries(usage_series))]

\* CPUPowerAndUsageGraph::update_data(csv_logger)
CpuGraphUpdate(g, buffer) ==
    IF buffer = <<>> THEN g
    ELSE CpuGraphSeries([g EXCEPT !.first_timestamp = FirstTimestamp(@, buffer)],
                        CpuSeries(buffer, FirstTimestamp(g.first_timestamp, buffer)[1],
                                  "power_draw"),
                        CpuSeries(buffer, FirstTimestamp(g.first_timestamp, buffer)[1],
                                  "usage"))

\* latest_time after the loop over the GPUs, starting from 0.0
RECURSIVE LatestTime(_, _, _, _)
LatestTime(gpu_entries, gpu_count, start_ts, i) ==
    IF i > gpu_count THEN 0
    ELSE LET power_series == GpuSeries(gpu_entries, gpu_count, i, start_ts, "power_draw")
             rest == LatestTime(gpu_entries, gpu_count, start_ts, i + 1)
         IN  IF power_series = <<>> THEN rest
             ELSE F64Max(power_series[Len(power_series)][1], rest)

\* GPUPowerAndUsageGraph::update_data, from the baseline timestamp on
GpuGraphSeries(g, start_ts, gpu_entries, gpu_list) ==
    IF gpu_entries = <<>> \/ gpu_list = <<>> THEN g
    ELSE LET shown == {i \in 1..Len(gpu_list) :
                          GpuSeries(gpu_entries, Len(gpu_list), i, start_ts, "power_draw") # <<>>}
         IN  [g EXCEPT
               !.x_lim = IF shown = {} THEN @
                         ELSE XLim(LatestTime(gpu_entries, Len(gpu_list), start_ts, 1)),
               !.series =
                   [l \in {<<gpu_list[i].name, kind>> :
                              i \in shown, kind \in {"Power (W)", "Usage (%)"}} |->
                      LET i == CHOOSE j \in shown : gpu_list[j].name = l[1]
                      IN  PadSeries(GpuSeries(gpu_entries, Len(gpu_list), i, start_ts,
                                              IF l[2] = "Power (W)" THEN "power_draw"
                                              ELSE "usage"))]]

\* GPUPowerAndUsageGraph::update_data(csv_logger, gpu_data)
GpuGraphUpdate(g, buffer, gpu_list) ==
    IF buffer = <<>> THEN g
    ELSE GpuGraphSeries([g EXCEPT !.first_timestamp = FirstTimestamp(@, buffer)],
                        FirstTimestamp(g.first_timestamp, buffer)[1],
                        SelectSeq(buffer, IsGpuEntry), gpu_list)

\* PlotWindow::new: the three live graphs
PlotWindowNew ==
    [temp_graph |-> GraphNew, cpu_power_usage_graph |-> GraphNew,
     gpu_power_usage_graph |-> GraphNew]

\* PlotWindow::update(csv_logger, PlotWindowMessage::RefreshData, .., gpu_data)
RefreshData(pw, buffer, gpu_list) ==
    [ temp_graph |-> TempGraphUpdate(pw.temp_graph, buffer, gpu_list),
      cpu_power_usage_graph |-> CpuGraphUpdate(pw.cpu_power_usage_graph, buffer),
      gpu_power_usage_graph |-> GpuGraphUpdate(pw.gpu_power_usage_graph, buffer, gpu_list) ]

---------------------------------------------------------------------------
(* Specification of the log store: writes of single entries or small       *)
(* batches, explicit flushes (window close), midnight, deletion of a log   *)
(* file by the user, and I/O failures.                                     *)

MaxEntries == 3      \* entries passed to write per behaviour
MaxCalls == 4        \* write and flush_buffer calls per behaviour
MaxDay == 2          \* calendar days per behaviour
MaxFaults == 1       \* I/O failures per behaviour
MaxDeletions == 1    \* files deleted by the user per behaviour

FirstDay == 1

IoFailures == {"mkdir", "open", "header", "header_lost", "flush"}
Sites == {"pre", "rotate", "post"}
BatchSizes == {1, 2}     \* entries per write call

\* TempMon::update logs a CPU entry and a GPU entry per poll cycle
ComponentOf(id) == IF id % 2 = 1 THEN "CPU" ELSE "GPU"

\* the entry TempMon::update builds for a reading; the timestamp is unique
MakeEntry(id) ==
    [ timestamp |-> id,
      selected_process |-> <<>>,
      component_type |-> ComponentOf(id),
      model_name |-> IF ComponentOf(id) = "CPU" THEN "Ryzen" ELSE "RTX",
      temperature_unit |-> "C",
      temperature |-> 655,
      usage |-> 452,
      power_draw |-> 358 ]

LogNewState(existed, size) ==
    /\ logger = CsvLoggerNew(FirstDay, existed, size)
    /\ fs = (NewPath("logs", FirstDay) :> <<HeaderRow>>)
    /\ today = FirstDay
    /\ issued = <<>>
    /\ last = [op |-> "new", res |-> "Ok", n |-> 0, entries |-> <<>>, io |-> "none"]
    /\ faults = 0
    /\ deletions = 0

\* the log store at rest, for the specifications that do not exercise it
LogIdle == LogNewState(FALSE, DEV_BUFFER_SIZE)

\* the history tab before its first scan, in a logs directory holding only the store's files
IndexIdle ==
    /\ foreign = <<>>
    /\ log_files = <<>>
    /\ scan = [n |-> 0, io |-> "none", bad |-> <<>>, listing |-> {}]
    /\ points = <<>>
    /\ segments = <<>>

\* no poll cycle under way
PollAtRest ==
    /\ unit = "Celsius"
    /\ cpu_sensors = <<>>
    /\ gpus = <<>>
    /\ tasks = {}
    /\ queue = <<>>
    /\ running = {}
    /\ trail = [ticks |-> 0, completed |-> {}, applied |-> {}, applications |-> 0,
                panics |-> {}, celsius |-> <<>>, faults |-> 0]

\* the application before its first write: no error, graphs waiting for data
ViewIdle ==
    /\ last_error = "None"
    /\ plot_window = PlotWindowNew

ExtIdle == IndexIdle /\ PollAtRest /\ ViewIdle

StatsIdle ==
    /\ cpu_data = CpuDataNew(500)
    /\ gpu_data = GpuDataNew
    /\ fed = [cpu_temp |-> <<>>, cpu_usage |-> <<>>, gpu_core |-> <<>>, gpu_mj |-> <<>>]
    /\ pending = {}

InitLog ==
    /\ ExtIdle
    /\ StatsIdle
    /\ \E existed \in BOOLEAN, size \in {DEV_BUFFER_SIZE, PROD_BUFFER_SIZE} :
          LogNewState(existed, size)

Apply(op, r, entries, io) ==
    /\ io = "none" \/ r.hit
    /\ io # "none" => faults < MaxFaults
    /\ logger' = r.lg
    /\ fs' = r.fs
    /\ last' = [op |-> op, res |-> r.res, n |-> last.n + 1, entries |-> entries, io |-> io]
    /\ faults' = IF io = "none" THEN faults ELSE faults + 1
    /\ issued' = issued \o entries
    /\ UNCHANGED <<today, deletions, statsVars, extVars>>

\* TempMonMessage::CpuValuesUpdated / GpuValuesUpdated: csv_logger.write(vec![entry])
LogWrite ==
    /\ last.n < MaxCalls
    /\ \E k \in BatchSizes, site \in Sites, io \in IoFailures \cup {"none"} :
          /\ Len(issued) + k <= MaxEntries
          /\ io = "none" => site = "post"
          /\ LET entries == [i \in 1..k |-> MakeEntry(Len(issued) + i)]
             IN  Apply("write", Write(logger, fs, entries, today, site, io), entries, io)

\* TempMonMessage::WindowClosed: csv_logger.flush_buffer()
LogFlush ==
    /\ last.n < MaxCalls
    /\ \E io \in IoFailures \cup {"none"} :
          Apply("flush", FlushBuffer(logger, fs, io), <<>>, io)

\* the calendar day changes
Midnight ==
    /\ today < MaxDay
    /\ today' = today + 1
    /\ UNCHANGED <<logger, fs, issued, last, faults, deletions, statsVars, extVars>>

\* the user deletes a log file; a writer open on it keeps writing to the unlinked file
DeleteFile ==
    /\ deletions < MaxDeletions
    /\ \E p \in DOMAIN fs :
          /\ fs' = [q \in DOMAIN fs \ {p} |-> fs[q]]
          /\ logger' = IF logger.wtr.path = p
                       THEN [logger EXCEPT !.wtr.attached = FALSE]
                       ELSE logger
    /\ deletions' = deletions + 1
    /\ UNCHANGED <<today, issued, last, faults, statsVars, extVars>>

NextLog == LogWrite \/ LogFlush \/ Midnight \/ DeleteFile

SpecLog == InitLog /\ [][NextLog]_vars

---------------------------------------------------------------------------
(* Specification of long runs of the log store: more writes than the graph *)
(* buffer holds, one entry per write as TempMon::update issues them, and   *)
(* explicit flushes once the graph buffer is full; no I/O failure, no      *)
(* deletion, a single day.                                                 *)

MaxLongEntries == 1002   \* entries written per behaviour of SpecLong
MaxLongFlushes == 1      \* explicit flush_buffer calls per behaviour of SpecLong

InitLong ==
    /\ ExtIdle
    /\ StatsIdle
    /\ \E existed \in BOOLEAN, size \in {DEV_BUFFER_SIZE, PROD_BUFFER_SIZE} :
          LogNewState(existed, size)

LongWrite ==
    /\ Len(issued) < MaxLongEntries
    /\ LET entries == <<MakeEntry(Len(issued) + 1)>>
       IN  Apply("write", Write(logger, fs, entries, today, "post", "none"), entries, "none")

LongFlush ==
    /\ Len(issued) >= GRAPH_DATA_BUFFER_MAX
    /\ last.n - Len(issued) < MaxLongFlushes
    /\ Apply("flush", FlushBuffer(logger, fs, "none"), <<>>, "none")

NextLong == LongWrite \/ LongFlush

SpecLong == InitLong /\ [][NextLong]_vars

---------------------------------------------------------------------------
(* Specification of the statistics: any interleaving of the three updates, *)
(* any readings.                                                           *)

NumUpdates == Len(fed.cpu_temp) + Len(fed.cpu_usage) + Len(fed.gpu_core)

InitStats ==
    /\ ExtIdle
    /\ LogIdle
    /\ \E u0 \in UsageSamples : cpu_data = CpuDataNew(u0)
    /\ gpu_data = GpuDataNew
    /\ fed = [cpu_temp |-> <<>>, cpu_usage |-> <<>>, gpu_core |-> <<>>, gpu_mj |-> <<>>]
    /\ pending = {}

CpuValuesUpdated ==
    /\ NumUpdates < MaxUpdates
    /\ \E t \in TempSamples : CpuUpdateLhmData(t)
    /\ UNCHANGED <<pending, logVars, extVars>>

UpdateHardwareData ==
    /\ NumUpdates < MaxUpdates
    /\ \E u \in UsageSamples : CpuUpdate(u)
    /\ UNCHANGED <<pending, logVars, extVars>>

GpuValuesUpdated ==
    /\ NumUpdates < MaxUpdates
    /\ \E d \in GpuSamples : GpuUpdateLhmData(d)
    /\ UNCHANGED <<pending, logVars, extVars>>

NextStats == CpuValuesUpdated \/ UpdateHardwareData \/ GpuValuesUpdated

SpecStats == InitStats /\ [][NextStats]_vars

---------------------------------------------------------------------------
(* Specification of long runs: the poll cycle of TempMon::update.  A tick  *)
(* (UpdateHardwareData) samples the CPU usage and starts the CPU and the   *)
(* GPU query task; their completions (CpuValuesUpdated, GpuValuesUpdated)  *)
(* arrive in either order.  Each sensor varies during its first MaxVarying *)
(* readings and is steady afterwards, which keeps 32 cycles explorable.    *)

WindowTempSamples == {400, 700}
WindowUsageSamples == {500, 9000}
WindowGpuSamples ==
    { [core_temp |-> 4000, memory_junction_temp |-> 6000],
      [core_temp |-> 7000, memory_junction_temp |-> -500] }

Settled(hist, s) == IF Len(hist) < MaxVarying THEN TRUE ELSE s = hist[Len(hist)]

InitWindow ==
    /\ ExtIdle
    /\ LogIdle
    /\ cpu_data = CpuDataNew(500)
    /\ gpu_data = GpuDataNew
    /\ fed = [cpu_temp |-> <<>>, cpu_usage |-> <<>>, gpu_core |-> <<>>, gpu_mj |-> <<>>]
    /\ pending = {}

TickWindow ==
    /\ pending = {}
    /\ Len(fed.cpu_usage) < MaxWindowUpdates
    /\ \E u \in WindowUsageSamples : Settled(fed.cpu_usage, u) /\ CpuUpdate(u)
    /\ pending' = {"cpu", "gpu"}
    /\ UNCHANGED <<logVars, extVars>>

CpuDoneWindow ==
    /\ "cpu" \in pending
    /\ \E t \in WindowTempSamples : Settled(fed.cpu_temp, t) /\ CpuUpdateLhmData(t)
    /\ pending' = pending \ {"cpu"}
    /\ UNCHANGED <<logVars, extVars>>

GpuDoneWindow ==
    /\ "gpu" \in pending
    /\ \E d \in WindowGpuSamples :
          Settled(fed.gpu_core, d.core_temp) /\ GpuUpdateLhmData(d)
    /\ pending' = pending \ {"gpu"}
    /\ UNCHANGED <<logVars, extVars>>

NextWindow == TickWindow \/ CpuDoneWindow \/ GpuDoneWindow

SpecWindow == InitWindow /\ [][NextWindow]_vars

---------------------------------------------------------------------------
(* The log file index (app/data_logs/metadata.rs, history_tab.rs).  Text   *)
(* that the code inspects byte by byte (file names, date strings, the      *)
(* annotation field) is modelled as the sequence of its bytes.             *)

Bytes_hardware_logs_csv ==      \* "_hardware_logs.csv"
    <<95, 104, 97, 114, 100, 119, 97, 114, 101, 95, 108, 111, 103, 115, 46, 99, 115, 118>>

Bytes_cpu_logs_csv ==           \* "_cpu_logs.csv"
    <<95, 99, 112, 117, 95, 108, 111, 103, 115, 46, 99, 115, 118>>

Bytes_notes == <<110, 111, 116, 101, 115>>      \* "notes"

\* the calendar: the date of the first day of a behaviour and its successors
FirstDate == <<31, 1, 2025>>

DaysInMonth(m, y) ==
    IF m = 2 THEN (IF y % 4 = 0 /\ (y % 100 # 0 \/ y % 400 = 0) THEN 29 ELSE 28)
    ELSE IF m \in {4, 6, 9, 11} THEN 30 ELSE 31

NextDate(dt) ==
    IF dt[1] < DaysInMonth(dt[2], dt[3]) THEN <<dt[1] + 1, dt[2], dt[3]>>
    ELSE IF dt[2] < 12 THEN <<1, dt[2] + 1, dt[3]>>
    ELSE <<1, 1, dt[3] + 1>>

\* the date Local::now() reports on calendar day `day`
RECURSIVE DateOfDay(_)
DateOfDay(day) == IF day <= FirstDay THEN FirstDate ELSE NextDate(DateOfDay(day - 1))

Digits(n, width) == [i \in 1..width |-> 48 + ((n \div (10 ^ (width - i))) % 10)]

\* format("%d-%m-%Y")
FormatDate(dt) == Digits(dt[1], 2) \o <<45>> \o Digits(dt[2], 2) \o <<45>> \o Digits(dt[3], 4)

SuffixBytes(suffix) ==
    IF suffix = "_hardware_logs.csv" THEN Bytes_hardware_logs_csv ELSE Bytes_cpu_logs_csv

\* the file name of a path of the log store: format!("{}{suffix}", date_str)
FileName(p) == FormatDate(DateOfDay(p.date)) \o SuffixBytes(p.suffix)

\* str::strip_suffix: Some(prefix) as <<prefix>>, None as <<>>
StripSuffix(s, suffix) ==
    IF Len(s) >= Len(suffix) /\ SubSeq(s, Len(s) - Len(suffix) + 1, Len(s)) = suffix
    THEN <<SubSeq(s, 1, Len(s) - Len(suffix))>>
    ELSE <<>>

\* str::split(sep): the pieces between the separators, at least one piece
RECURSIVE Split(_, _)
Split(s, sep) ==
    IF \E i \in 1..Len(s) : s[i] = sep
    THEN LET i == CHOOSE k \in 1..Len(s) : s[k] = sep /\ \A j \in 1..(k - 1) : s[j] # sep
         IN  <<SubSeq(s, 1, i - 1)>> \o Split(SubSeq(s, i + 1, Len(s)), sep)
    ELSE <<s>>

\* str::trim: leading and trailing blanks removed
RECURSIVE Trim(_)
Trim(s) ==
    IF s = <<>> THEN s
    ELSE IF Head(s) = 32 THEN Trim(Tail(s))
    ELSE IF s[Len(s)] = 32 THEN Trim(SubSeq(s, 1, Len(s) - 1))
    ELSE s

\* the body of `if !process_field.is_empty()`: the trimmed, non-empty name
\* before '=' of every comma-separated piece
ProcessNames(process_field) ==
    LET pieces == Split(process_field, 44)
    IN  { Trim(Head(Split(pieces[i], 61))) : i \in 1..Len(pieces) } \ {<<>>}

\* LogFileMetadata::check_has_process_data on a file holding `lines`; `io`
\* is "read" when opening or reading the file fails.  rdr.records() takes the
\* first line as the header and yields UnequalLengths for a record whose
\* length differs from it; the `?` then returns the error.
check_has_process_data(lines, io) ==
    IF io = "read" THEN [res |-> "Err", processes |-> {}, entry_count |-> 0]
    ELSE IF lines = <<>> THEN [res |-> "Ok", processes |-> {}, entry_count |-> 0]
    ELSE LET header == Head(lines)
             rows == Tail(lines)
         IN  IF \E i \in 1..Len(rows) : Len(rows[i]) # Len(header)
             THEN [res |-> "Err", processes |-> {}, entry_count |-> 0]
             ELSE [res |-> "Ok",
                   processes |-> UNION { IF Len(rows[i]) >= 2 /\ rows[i][2] # <<>>
                                         THEN ProcessNames(rows[i][2]) ELSE {}
                                         : i \in 1..Len(rows) },
                   entry_count |-> Len(rows)]

\* the number of fields of a file stands for its size in bytes
RECURSIVE FileSize(_)
FileSize(lines) == IF lines = <<>> THEN 0 ELSE Len(Head(lines)) + FileSize(Tail(lines))

\* from_path dropping a file that fails to parse
from_path_DropsUnparsable(file, io) ==
    LET date == StripSuffix(file.filename, Bytes_hardware_logs_csv)
        scanned == check_has_process_data(file.lines, io)
    IN  IF date = <<>> \/ io = "stat" \/ scanned.res = "Err" THEN <<>>
        ELSE << [ filename |-> file.filename,
                  date |-> date[1],
                  has_process_data |-> scanned.processes # {},
                  processes |-> scanned.processes,
                  entry_count |-> scanned.entry_count,
                  file_size |-> FileSize(file.lines) ] >>

\* LogFileMetadata::from_path: Some(metadata) as <<metadata>>, None as <<>>;
\* `io` is "stat" when fs::metadata fails.  unwrap_or_default turns an error
\* of the scan into (HashSet::new(), 0).
from_path(file, io) ==
    LET date == StripSuffix(file.filename, Bytes_hardware_logs_csv)
        scanned == check_has_process_data(file.lines, io)
    IN  IF date = <<>> \/ io = "stat" THEN <<>>
        ELSE << [ filename |-> file.filename,
                  date |-> date[1],
                  has_process_data |-> scanned.processes # {},
                  processes |-> scanned.processes,
                  entry_count |-> scanned.entry_count,
                  file_size |-> FileSize(file.lines) ] >>

\* the files of the logs directory: those of the log store and the others
list_logs_files(fsys, others) ==
    { [filename |-> FileName(p), lines |-> fsys[p]] : p \in DOMAIN fsys }
    \cup { [filename |-> n, lines |-> others[n]] : n \in DOMAIN others }

\* String::cmp: bytewise lexicographic order
RECURSIVE StrLess(_, _)
StrLess(a, b) ==
    IF b = <<>> THEN FALSE
    ELSE IF a = <<>> THEN TRUE
    ELSE IF Head(a) # Head(b) THEN Head(a) < Head(b)
    ELSE StrLess(Tail(a), Tail(b))

\* log_files.sort_by(|a, b| b.date.cmp(&a.date)); the dates of two files of
\* one directory differ, so the order the directory was listed in is immaterial
RECURSIVE SortByDateDesc(_)
SortByDateDesc(S) ==
    IF S = {} THEN <<>>
    ELSE LET m == CHOOSE x \in S : \A y \in S : ~StrLess(x.date, y.date)
         IN  <<m>> \o SortByDateDesc(S \ {m})

\* HistoricalTab::load_files: `io` is "list" when the directory cannot be
\* listed, and [file |-> f, io |-> "read" or "stat"] when one file fails
LoadFilesResult(fsys, others, old, io, bad) ==
    IF io = "list" THEN old
    ELSE LET listing == list_logs_files(fsys, others)
             IoOf(f) == IF f.filename = bad THEN io ELSE "none"
             found == UNION { {from_path(f, IoOf(f))[i] : i \in 1..Len(from_path(f, IoOf(f)))}
                              : f \in listing }
         IN  SortByDateDesc(found)

---------------------------------------------------------------------------
(* Specification of the index: the log store writes annotated entries      *)
(* across midnight, log files of earlier runs and unrelated files appear   *)
(* in the logs directory, and the history tab scans the directory.         *)

MaxIndexEntries == 1     \* entries written per behaviour of SpecIndex
MaxOtherFiles == 2       \* files put into the logs directory per behaviour
MaxScans == 1            \* directory scans per behaviour

Bytes_two_processes == <<97, 61, 49, 44, 98, 61, 50>>          \* "a=1,b=2"
Bytes_blank_and_repeat == <<32, 97, 32, 61, 49, 44, 97, 61, 50>>    \* " a =1,a=2"

\* what format_selected_processes_for_csv returns: nothing selected, or name=stats pieces
AnnotationSamples == {Bytes_two_processes}

AnnotatedEntry(id, annotation) == [MakeEntry(id) EXCEPT !.selected_process = annotation]

\* a row of the six columns open_csv_writer names in its header
SixColumnRow(id) == <<id, <<67, 80, 85>>, <<67>>, 655, 452, 358>>

\* files of earlier days and a file that is no log file: name and lines
OtherFiles ==
    { \* the six columns of the header the store writes, with rows to match
      [filename |-> FormatDate(<<30, 11, 2024>>) \o Bytes_hardware_logs_csv,
       lines |-> <<HeaderRow, SixColumnRow(1)>>],
      \* the eight columns of HardwareLogEntry with annotated rows
      [filename |-> FormatDate(<<1, 12, 2024>>) \o Bytes_hardware_logs_csv,
       lines |-> <<EntryFields, SerializeEntry(AnnotatedEntry(1, Bytes_blank_and_repeat)),
                   SerializeEntry(AnnotatedEntry(2, <<>>)),
                   SerializeEntry(AnnotatedEntry(3, Bytes_two_processes))>>],
      \* the same day's file with a truncated row
      [filename |-> FormatDate(<<1, 12, 2024>>) \o Bytes_hardware_logs_csv,
       lines |-> <<EntryFields, SerializeEntry(AnnotatedEntry(1, Bytes_two_processes)),
                   <<2, <<>>, "GPU">> >>],
      [filename |-> Bytes_notes \o Bytes_hardware_logs_csv,
       lines |-> <<EntryFields, SerializeEntry(AnnotatedEntry(1, Bytes_two_processes))>>] }

InitIndex ==
    /\ IndexIdle
    /\ PollAtRest
    /\ ViewIdle
    /\ StatsIdle
    /\ \E existed \in BOOLEAN : LogNewState(existed, DEV_BUFFER_SIZE)

\* TempMonMessage::CpuValuesUpdated / GpuValuesUpdated with processes selected or not
IndexWrite ==
    /\ Len(issued) < MaxIndexEntries
    /\ \E annotation \in AnnotationSamples :
          LET entries == <<AnnotatedEntry(Len(issued) + 1, annotation)>>
          IN  Apply("write", Write(logger, fs, entries, today, "post", "none"), entries, "none")

IndexMidnight == Midnight

\* a file appears in the logs directory
PlaceFile ==
    /\ Cardinality(DOMAIN foreign) < MaxOtherFiles
    /\ \E f \in OtherFiles :
          /\ f.filename \notin DOMAIN foreign
          /\ foreign' = foreign @@ (f.filename :> f.lines)
    /\ UNCHANGED <<log_files, scan, points, segments, statsVars, logVars, pollVars, viewVars>>

\* the history tab is opened: HistoricalTab::load_files
LoadFiles ==
    /\ scan.n < MaxScans
    /\ LET listing == list_logs_files(fs, foreign)
       IN  \E io \in {"none", "list", "read", "stat"}, bad \in {f.filename : f \in listing} \cup {<<>>} :
              /\ (io \in {"read", "stat"}) <=> (bad # <<>>)
              /\ log_files' = LoadFilesResult(fs, foreign, log_files, io, bad)
              /\ scan' = [n |-> scan.n + 1, io |-> io, bad |-> bad, listing |-> listing]
    /\ UNCHANGED <<foreign, points, segments, statsVars, logVars, pollVars, viewVars>>

NextIndex == IndexWrite \/ IndexMidnight \/ PlaceFile \/ LoadFiles

SpecIndex == InitIndex /\ [][NextIndex]_vars

---------------------------------------------------------------------------
(* The poll cycle (app/tempmon.rs, collectors/lhm_collector.rs).  Sensor   *)
(* names are modelled as the sequences of their bytes.                     *)

Bytes_CPU_Package == <<67, 80, 85, 32, 80, 97, 99, 107, 97, 103, 101>>        \* "CPU Package"
Bytes_Core_Tctl_Tdie ==                                                       \* "Core (Tctl/Tdie)"
    <<67, 111, 114, 101, 32, 40, 84, 99, 116, 108, 47, 84, 100, 105, 101, 41>>
Bytes_CPU_Core == <<67, 80, 85, 32, 67, 111, 114, 101>>                       \* "CPU Core"
Bytes_Package == <<80, 97, 99, 107, 97, 103, 101>>                            \* "Package"
Bytes_Tctl == <<84, 99, 116, 108>>                                            \* "Tctl"
Bytes_Core_Max == <<67, 111, 114, 101, 32, 77, 97, 120>>                      \* "Core Max"

\* str::contains
Contains(s, sub) ==
    \E i \in 1..(Len(s) - Len(sub) + 1) : SubSeq(s, i, i + Len(sub) - 1) = sub

\* the closure passed to find() in lhm_cpu_queries
IsTempSensor(name) ==
    \/ name = Bytes_CPU_Package
    \/ name = Bytes_Core_Tctl_Tdie
    \/ name = Bytes_CPU_Core
    \/ Contains(name, Bytes_Package)
    \/ Contains(name, Bytes_Tctl)

\* total_temp_query.iter().find(..): the position of the first sensor the
\* closure accepts, 0 for None
FindTempSensor(sensors) ==
    IF \E i \in 1..Len(sensors) : IsTempSensor(sensors[i])
    THEN CHOOSE i \in 1..Len(sensors) :
            IsTempSensor(sensors[i]) /\ \A j \in 1..(i - 1) : ~IsTempSensor(sensors[j])
    ELSE 0

\* TempUnits::Celsius.convert(value, to_unit) on a value scaled by `scale`
ConvertFromCelsius(value, to_unit, scale) ==
    IF to_unit = "Celsius" THEN value
    ELSE RoundDiv(value * 9, 5) + 32 * scale

\* the pure part of GpuData::update_lhm_data
GpuDataUpdated(g, data) ==
    LET seed == g.first_run
        cmax == IF seed THEN data.core_temp ELSE g.core_temp_max
        cmin == IF seed THEN data.core_temp ELSE g.core_temp_min
        mmax == IF seed THEN data.memory_junction_temp ELSE g.memory_junction_temp_max
        mmin == IF seed THEN data.memory_junction_temp ELSE g.memory_junction_temp_min
    IN  [g EXCEPT
              !.first_run = FALSE,
              !.core_temp = data.core_temp,
              !.memory_junction_temp = data.memory_junction_temp,
              !.core_temp_max = F32Max(cmax, data.core_temp),
              !.core_temp_min = F32Min(cmin, data.core_temp),
              !.memory_junction_temp_max = F32Max(mmax, data.memory_junction_temp),
              !.memory_junction_temp_min = F32Min(mmin, data.memory_junction_temp),
              !.core_temp_avg = Append(g.core_temp_avg, data.core_temp),
              !.memory_junction_temp_avg =
                  Append(g.memory_junction_temp_avg, data.memory_junction_temp)]

---------------------------------------------------------------------------
(* Specification of the poll cycle: the timer posts UpdateHardwareData,    *)
(* whose handler starts the CPU and the GPU query task; a task ends with a *)
(* message or with a panic; the runtime hands the messages to update one   *)
(* by one.  The hardware monitor service is connected and reports two      *)
(* GPUs; the log store meets no I/O failure.  SpecPoll runs overlapping    *)
(* cycles whose queries succeed; SpecFaults runs cycles whose queries can  *)
(* fail, on every sensor list.                                             *)

MaxCycles == 2           \* timer ticks per behaviour of SpecPoll
MaxFaultCycles == 1      \* timer ticks per behaviour of SpecFaults
MaxPollFaults == 1       \* failing sensor queries per behaviour of SpecFaults
MaxWriteFaults == 1      \* failing log writes per behaviour of SpecErrors

PollTempSamples == {400}            \* tenths of a degree Celsius
PollUsageSamples == {500}           \* hundredths of a percent
PollGpuSamples ==                   \* hundredths of a degree Celsius
    { [core_temp |-> 4000, memory_junction_temp |-> 6000] }

SensorLists ==
    { <<Bytes_Core_Max, Bytes_CPU_Package>>,
      <<Bytes_Core_Tctl_Tdie, Bytes_CPU_Package>>,
      <<Bytes_Core_Max>> }

\* gpu_brands: the brand of every GPU initialize_gpus found
GpuBrands == <<"GpuNvidia", "GpuAmd">>

NumGpus == Len(GpuBrands)

\* hw.name of every GPU initialize_gpus found
GpuNames == <<"GPU 0", "GPU 1">>

\* GpuData::new(brand, name)
GpuNew(brand, name) == [brand |-> brand, name |-> name] @@ GpuDataNew

\* the GPUs initialize_gpus found in a hardware list of the given brands
InitializeGpus(brands) == [i \in 1..Len(brands) |-> GpuNew(brands[i], GpuNames[i])]

\* GpuLHMQuery::default()
GpuQueryDefault == [core_temp |-> 0, memory_junction_temp |-> 0]

NoGhost == [sensors |-> <<>>, chosen |-> 0, sensed |-> <<>>]

Message(kind, cycle, payload, ghost) ==
    [kind |-> kind, cycle |-> cycle, payload |-> payload, ghost |-> ghost]

\* the application once the hardware monitor is connected; the temperature
\* unit comes from the stored settings
PollIdle(selected, sensors, brands) ==
    /\ unit = selected
    /\ cpu_sensors = sensors
    /\ gpus = InitializeGpus(brands)
    /\ tasks = {}
    /\ queue = <<>>
    /\ running = {}
    /\ trail = [ticks |-> 0, completed |-> {}, applied |-> {}, applications |-> 0,
                panics |-> {}, celsius |-> <<>>, faults |-> 0]

InitPoll ==
    /\ IndexIdle
    /\ \E selected \in {"Celsius", "Fahrenheit"},
          sensors \in {l \in SensorLists : FindTempSensor(l) # 0} :
          PollIdle(selected, sensors, GpuBrands)
    /\ ViewIdle
    /\ StatsIdle
    /\ LogNewState(TRUE, DEV_BUFFER_SIZE)

\* iced::time::every(..).map(|_| TempMonMessage::UpdateHardwareData); update
\* takes a tick before the timer posts the next one
TimerPosts(limit) ==
    /\ trail.ticks < limit
    /\ \A i \in 1..Len(queue) : queue[i].kind # "tick"
    /\ queue' = Append(queue, Message("tick", trail.ticks + 1, <<>>, NoGhost))
    /\ trail' = [trail EXCEPT !.ticks = @ + 1]
    /\ UNCHANGED <<unit, cpu_sensors, gpus, tasks, running, statsVars, logVars, indexVars, viewVars>>

Timer == TimerPosts(MaxCycles)

\* the runtime entering update with the next message while an update is in progress
RuntimeDispatch_NoWait ==
    /\ queue # <<>>
    /\ running' = running \cup {Head(queue)}
    /\ queue' = Tail(queue)
    /\ UNCHANGED <<unit, cpu_sensors, gpus, tasks, trail, statsVars, logVars, indexVars, viewVars>>

\* the runtime calling TempMon::update(&mut self, message) with the next
\* message once the previous call has returned
RuntimeDispatch ==
    /\ queue # <<>>
    /\ running = {}
    /\ running' = {Head(queue)}
    /\ queue' = Tail(queue)
    /\ UNCHANGED <<unit, cpu_sensors, gpus, tasks, trail, statsVars, logVars, indexVars, viewVars>>

\* TempMonMessage::UpdateHardwareData
Poll_UpdateHardwareData ==
    \E m \in running :
        /\ m.kind = "tick"
        /\ \E u \in PollUsageSamples : CpuUpdate(u)
        /\ tasks' = tasks \cup {[kind |-> "cpu", cycle |-> m.cycle],
                                [kind |-> "gpu", cycle |-> m.cycle]}
        /\ running' = running \ {m}
        /\ UNCHANGED <<unit, cpu_sensors, gpus, queue, trail, pending, logVars, indexVars, viewVars>>

\* the CPU task of UpdateHardwareData: client.update_all(), then lhm_cpu_queries.
\* `outcome` is "ok", "err" (update_all fails: the task answers with a zero
\* reading) or "panic" (a query inside lhm_cpu_queries fails: unwrap).  With
\* no sensor that find() accepts, expect("Missing cpu temp sensor") panics.
CpuTaskRun(outcomes) ==
    \E task \in tasks, outcome \in outcomes, t \in PollTempSamples :
        /\ task.kind = "cpu"
        /\ outcome # "ok" => trail.faults < MaxPollFaults
        /\ tasks' = tasks \ {task}
        /\ LET chosen == FindTempSensor(cpu_sensors)
               ghost == [sensors |-> cpu_sensors, chosen |-> chosen, sensed |-> <<>>]
               done == [kind |-> "cpu", cycle |-> task.cycle]
           IN  IF outcome = "err"
               THEN /\ queue' = Append(queue, Message("cpu", task.cycle, <<0>>, NoGhost))
                    /\ trail' = [trail EXCEPT !.completed = @ \cup {done}, !.faults = @ + 1]
               ELSE IF outcome = "panic"
               THEN /\ queue' = queue
                    /\ trail' = [trail EXCEPT
                                  !.panics = @ \cup {[kind |-> "cpu", cycle |-> task.cycle,
                                                      cause |-> "transport"]},
                                  !.faults = @ + 1]
               ELSE IF chosen = 0
               THEN /\ queue' = queue
                    /\ trail' = [trail EXCEPT
                                  !.panics = @ \cup {[kind |-> "cpu", cycle |-> task.cycle,
                                                      cause |-> "no_sensor"]}]
               ELSE /\ queue' = Append(queue, Message("cpu", task.cycle, <<t>>, ghost))
                    /\ trail' = [trail EXCEPT !.completed = @ \cup {done}]
        /\ UNCHANGED <<unit, cpu_sensors, gpus, running, statsVars, logVars, indexVars, viewVars>>

\* what the sensors of one GPU can answer a query with
GpuOutcomes(samples) ==
    { [ok |-> TRUE, data |-> d] : d \in samples }
    \cup { [ok |-> FALSE, data |-> GpuQueryDefault] }

\* lhm_gpu_queries(brand, client): query_hardware(None, Some(brand)), then the
\* loop over every GPU of that brand writes into the one GpuLHMQuery it returns
lhm_gpu_queries(brand, hardware, sensed) ==
    LET gpu_list == {j \in 1..Len(hardware) : hardware[j].brand = brand}
    IN  IF gpu_list = {} THEN GpuQueryDefault
        ELSE sensed[CHOOSE j \in gpu_list : \A k \in gpu_list : k <= j].data

\* the GPU task of UpdateHardwareData: lhm_gpu_queries for one brand after
\* the other.  sensed[i] is what the query of GPU i meets; a failing query
\* ends the task by `?` (mode "err": the task answers with no reading at all)
\* or by unwrap inside lhm_gpu_queries (mode "panic").
GpuTaskRun(failing, samples) ==
    \E task \in tasks, sensed \in [1..NumGpus -> GpuOutcomes(samples)],
       mode \in {"err", "panic"} :
        /\ task.kind = "gpu"
        /\ failing \/ \A i \in 1..NumGpus : sensed[i].ok
        /\ LET failed == {i \in 1..NumGpus : ~sensed[i].ok}
               ghost == [sensors |-> <<>>, chosen |-> 0, sensed |-> sensed]
               done == [kind |-> "gpu", cycle |-> task.cycle]
           IN  /\ Cardinality(failed) <= MaxPollFaults - trail.faults
               /\ failed = {} => mode = "err"
               /\ IF failed = {}
                  THEN /\ queue' = Append(queue, Message("gpu", task.cycle,
                                          [i \in 1..NumGpus |->
                                              lhm_gpu_queries(gpus[i].brand, gpus, sensed)],
                                          ghost))
                       /\ trail' = [trail EXCEPT !.completed = @ \cup {done}]
                  ELSE IF mode = "err"
                  THEN /\ queue' = Append(queue, Message("gpu", task.cycle, <<>>, ghost))
                       /\ trail' = [trail EXCEPT !.completed = @ \cup {done},
                                               !.faults = @ + Cardinality(failed)]
                  ELSE /\ queue' = queue
                       /\ trail' = [trail EXCEPT
                                     !.panics = @ \cup {[kind |-> "gpu", cycle |-> task.cycle,
                                                         cause |-> "transport"]},
                                     !.faults = @ + Cardinality(failed)]
        /\ tasks' = tasks \ {task}
        /\ UNCHANGED <<unit, cpu_sensors, gpus, running, statsVars, logVars, indexVars, viewVars>>

\* the HardwareLogEntry built from a reading (tempmon.rs:450-459, 496-505)
ReadingEntry(id, component, temperature_unit, temperature) ==
    [MakeEntry(id) EXCEPT
        !.component_type = component,
        !.model_name = IF component = "CPU" THEN "Ryzen" ELSE "RTX",
        !.temperature_unit = temperature_unit,
        !.temperature = temperature]

\* last_error after `match self.csv_logger.write(..)` with the error arm assigning nothing
LastErrorAfter_ErrorDropped(res) == "None"

\* last_error after `match self.csv_logger.write(vec![entry])`: Ok clears it,
\* Err stores the message
LastErrorAfter(res) == IF res = "Ok" THEN "None" ELSE "Some"

\* the fields of self after CpuValuesUpdated wrote `entry` with result r and
\* refreshed the plot window
CpuStore(m, io, entry, r) ==
    /\ io = "none" \/ r.hit
    /\ logger' = r.lg
    /\ fs' = r.fs
    /\ issued' = Append(issued, entry)
    /\ last' = [op |-> "write", res |-> r.res, n |-> last.n + 1,
                entries |-> <<entry>>, io |-> io]
    /\ faults' = IF io = "none" THEN faults ELSE faults + 1
    /\ last_error' = LastErrorAfter(r.res)
    /\ plot_window' = RefreshData(plot_window, r.lg.graph_data_buffer, gpus)

\* a write that meets no I/O failure
NoFailure == [site |-> "post", io |-> "none"]

\* TempMonMessage::CpuValuesUpdated(temps); the write meets one of the I/O
\* outcomes `ios`, each the failure `io` at `site` of CsvLogger::write
CpuValuesApplied(ios) ==
    \E m \in running, o \in ios :
        /\ m.kind = "cpu"
        /\ o.io # "none" => faults < MaxWriteFaults
        /\ CpuUpdateLhmData(m.payload[1])
        /\ CpuStore(m, o.io,
                    ReadingEntry(Len(issued) + 1, "CPU", unit,
                                 ConvertFromCelsius(m.payload[1], unit, 10)),
                    Write(logger, fs,
                          <<ReadingEntry(Len(issued) + 1, "CPU", unit,
                                         ConvertFromCelsius(m.payload[1], unit, 10))>>,
                          today, o.site, o.io))
        /\ trail' = [trail EXCEPT
                      !.applied = @ \cup {[kind |-> m.kind, cycle |-> m.cycle]},
                      !.applications = @ + 1,
                      !.celsius = Append(@, m.payload[1])]
        /\ running' = running \ {m}
        /\ UNCHANGED <<unit, cpu_sensors, gpus, tasks, queue, pending, today, deletions, indexVars>>

\* one pass of the loop of GpuValuesUpdated: the state after GPU i was
\* updated to g, `entry` was written with result r and the plot window refreshed
GpuLogged(st, i, g, entry, r, io) ==
    [st EXCEPT
        !.gpus[i] = g,
        !.lg = r.lg,
        !.fs = r.fs,
        !.issued = Append(@, entry),
        !.celsius = Append(@, g.core_temp),
        !.last = [op |-> "write", res |-> r.res, n |-> @.n + 1,
                  entries |-> <<entry>>, io |-> io],
        !.faults = IF io = "none" THEN @ ELSE @ + 1,
        !.hit = @ /\ (io = "none" \/ r.hit),
        !.last_error = LastErrorAfter(r.res),
        !.plot_window = RefreshData(@, r.lg.graph_data_buffer, [st.gpus EXCEPT ![i] = g])]

\* the entry GpuValuesUpdated builds for GPU i
GpuEntry(st, g) ==
    [ReadingEntry(Len(st.issued) + 1, "GPU", st.unit,
                  ConvertFromCelsius(g.core_temp, st.unit, 100))
        EXCEPT !.model_name = g.name]

\* the loop of GpuValuesUpdated from query i on: update_lhm_data, convert,
\* write, refresh; io_of[i] is the I/O outcome the write for GPU i meets
RECURSIVE GpuApply(_, _, _, _, _)
GpuApply(st, queries, i, now, io_of) ==
    IF i > Len(queries) THEN st
    ELSE IF i > Len(st.gpus) THEN GpuApply(st, queries, i + 1, now, io_of)
    ELSE GpuApply(GpuLogged(st, i, GpuDataUpdated(st.gpus[i], queries[i]),
                            GpuEntry(st, GpuDataUpdated(st.gpus[i], queries[i])),
                            Write(st.lg, st.fs,
                                  <<GpuEntry(st, GpuDataUpdated(st.gpus[i], queries[i]))>>,
                                  now, io_of[i].site, io_of[i].io),
                            io_of[i].io),
                  queries, i + 1, now, io_of)

\* the fields of self after the loop of GpuValuesUpdated
GpuStore(m, st) ==
    /\ st.hit
    /\ st.faults <= MaxWriteFaults
    /\ gpus' = st.gpus
    /\ logger' = st.lg
    /\ fs' = st.fs
    /\ issued' = st.issued
    /\ last' = st.last
    /\ faults' = st.faults
    /\ last_error' = st.last_error
    /\ plot_window' = st.plot_window
    /\ trail' = [trail EXCEPT
                  !.applied = @ \cup {[kind |-> m.kind, cycle |-> m.cycle]},
                  !.applications = @ + 1,
                  !.celsius = st.celsius]

\* TempMonMessage::GpuValuesUpdated(gpu_queries); the writes meet I/O outcomes
\* of `ios`
GpuValuesApplied(ios) ==
    \E m \in running, io_of \in [1..NumGpus -> ios] :
        /\ m.kind = "gpu"
        /\ \A i \in 1..NumGpus : i > Len(m.payload) => io_of[i] = NoFailure
        /\ GpuStore(m, GpuApply([gpus |-> gpus, lg |-> logger, fs |-> fs, issued |-> issued,
                                  celsius |-> trail.celsius, last |-> last, unit |-> unit,
                                  faults |-> faults, hit |-> TRUE, last_error |-> last_error,
                                  plot_window |-> plot_window],
                                 m.payload, 1, today, io_of))
        /\ running' = running \ {m}
        /\ UNCHANGED <<unit, cpu_sensors, tasks, queue, statsVars, today, deletions, indexVars>>

\* TempMonMessage::CpuValuesUpdated(temps), no I/O failure
Poll_CpuValuesUpdated == CpuValuesApplied({NoFailure})

\* TempMonMessage::GpuValuesUpdated(gpu_queries), no I/O failure
Poll_GpuValuesUpdated == GpuValuesApplied({NoFailure})

\* the query tasks when every query succeeds
PollCpuTask == CpuTaskRun({"ok"})

PollGpuTask == GpuTaskRun(FALSE, PollGpuSamples)

NextPoll ==
    \/ Timer
    \/ RuntimeDispatch
    \/ Poll_UpdateHardwareData
    \/ PollCpuTask
    \/ PollGpuTask
    \/ Poll_CpuValuesUpdated
    \/ Poll_GpuValuesUpdated

SpecPoll == InitPoll /\ [][NextPoll]_vars

InitFaults ==
    /\ IndexIdle
    /\ \E selected \in {"Celsius", "Fahrenheit"}, sensors \in SensorLists :
          PollIdle(selected, sensors, GpuBrands)
    /\ ViewIdle
    /\ StatsIdle
    /\ LogNewState(TRUE, DEV_BUFFER_SIZE)

FaultTimer ==
    /\ trail.ticks < MaxFaultCycles
    /\ Timer

\* the query tasks when queries can fail
CpuTask == CpuTaskRun({"ok", "err", "panic"})

GpuTask == GpuTaskRun(TRUE, PollGpuSamples)

NextFaults ==
    \/ FaultTimer
    \/ RuntimeDispatch
    \/ Poll_UpdateHardwareData
    \/ CpuTask
    \/ GpuTask
    \/ Poll_CpuValuesUpdated
    \/ Poll_GpuValuesUpdated

SpecFaults == InitFaults /\ [][NextFaults]_vars

---------------------------------------------------------------------------
(* The history graphs (app/data_logs/history_graphs.rs) cut a series where *)
(* sampling paused.  A point is <<x, y>>; x is in half minutes, so that    *)
(* the 0.5 of the documented example is a whole number.                    *)

\* GAP_THRESHOLD_MINUTES = 1.0 (minutes; 2 * GAP_THRESHOLD_MINUTES half minutes)
GAP_THRESHOLD_MINUTES == 1

\* `gap > GAP_THRESHOLD_MINUTES` with >= in place of >
GapDetected_AtThreshold(previous, point) ==
    point[1] - previous[1] >= 2 * GAP_THRESHOLD_MINUTES

\* `let gap = points[i][0] - points[i - 1][0]; if gap > GAP_THRESHOLD_MINUTES`
GapDetected(previous, point) == point[1] - previous[1] > 2 * GAP_THRESHOLD_MINUTES

\* `if !current_segment.is_empty() { segments.push(current_segment); }`
PushSegment(segs, current_segment) ==
    IF current_segment # <<>> THEN Append(segs, current_segment) ELSE segs

\* the loop `for i in 1..points.len()` from index i on (i counts from 1 here)
\* and the push after it
RECURSIVE SplitFrom(_, _, _, _)
SplitFrom(pts, i, segs, current_segment) ==
    IF i > Len(pts) THEN PushSegment(segs, current_segment)
    ELSE IF GapDetected(pts[i - 1], pts[i])
         THEN SplitFrom(pts, i + 1, PushSegment(segs, current_segment), <<pts[i]>>)
         ELSE SplitFrom(pts, i + 1, segs, Append(current_segment, pts[i]))

\* split_into_segments(points)
split_into_segments(pts) ==
    IF pts = <<>> THEN <<>> ELSE SplitFrom(pts, 2, <<>>, <<pts[1]>>)

---------------------------------------------------------------------------
(* Specification of the segmentation: any series of up to MaxPoints points *)
(* over the sampled x-values, in any order of x, is cut once.              *)

MaxPoints == 3                  \* points of a series
XSamples == {0, 1, 2, 3, 10}    \* x of a point, in half minutes

\* the series of n points whose y is the position in the series, counted from 0
SeriesOfLength(n) ==
    { [k \in 1..n |-> <<xs[k], k - 1>>] : xs \in [1..n -> XSamples] }

InitSegments ==
    /\ foreign = <<>>
    /\ log_files = <<>>
    /\ scan = [n |-> 0, io |-> "none", bad |-> <<>>, listing |-> {}]
    /\ \E n \in 0..MaxPoints : points \in SeriesOfLength(n)
    /\ segments = <<>>
    /\ PollAtRest
    /\ ViewIdle
    /\ StatsIdle
    /\ LogIdle

\* CPUDataLog::new / GPUDataLog::new: split_into_segments(series)
SplitSeries ==
    /\ segments = <<>>
    /\ segments' = <<split_into_segments(points)>>
    /\ UNCHANGED <<foreign, log_files, scan, points, statsVars, logVars, pollVars, viewVars>>

NextSegments == SplitSeries

SpecSegments == InitSegments /\ [][NextSegments]_vars

---------------------------------------------------------------------------
(* Specification of the log errors the application surfaces: poll cycles   *)
(* one after the other, every query succeeds, the calendar day can change, *)
(* and a write can fail on an I/O error at its threshold flush or when it  *)
(* opens the new day's file.                                               *)

MaxErrorCycles == 2      \* timer ticks per behaviour of SpecErrors

WriteOutcomes ==
    {NoFailure, [site |-> "post", io |-> "flush"], [site |-> "rotate", io |-> "open"]}

InitErrors ==
    /\ IndexIdle
    /\ \E selected \in {"Celsius", "Fahrenheit"} :
          PollIdle(selected, <<Bytes_Core_Tctl_Tdie, Bytes_CPU_Package>>, GpuBrands)
    /\ ViewIdle
    /\ StatsIdle
    /\ LogNewState(TRUE, DEV_BUFFER_SIZE)

\* the timer firing once the previous cycle's results are applied
IdleTimer(limit) ==
    /\ tasks = {}
    /\ queue = <<>>
    /\ running = {}
    /\ TimerPosts(limit)

ErrTimer == IdleTimer(MaxErrorCycles)

ErrCpuValuesUpdated == CpuValuesApplied(WriteOutcomes)

ErrGpuValuesUpdated == GpuValuesApplied(WriteOutcomes)

NextErrors ==
    \/ ErrTimer
    \/ Midnight
    \/ RuntimeDispatch
    \/ Poll_UpdateHardwareData
    \/ PollCpuTask
    \/ PollGpuTask
    \/ ErrCpuValuesUpdated
    \/ ErrGpuValuesUpdated

SpecErrors == InitErrors /\ [][NextErrors]_vars

---------------------------------------------------------------------------
(* Specification of the live graphs over a long session: poll cycles one   *)
(* after the other, every write succeeds, until the graphs scroll.  In the *)
(* first MaxRacedCycles cycles either query task can answer first and a    *)
(* GPU query can fail; afterwards every query succeeds and the CPU task    *)
(* answers first.                                                          *)

MaxSeriesCycles == 35    \* timer ticks per behaviour of SpecSeries
MaxRacedCycles == 1      \* cycles of SpecSeries in which the GPU task can answer first or fail

InitSeries ==
    /\ IndexIdle
    /\ PollIdle("Celsius", <<Bytes_Core_Tctl_Tdie, Bytes_CPU_Package>>, GpuBrands)
    /\ ViewIdle
    /\ StatsIdle
    /\ LogNewState(TRUE, DEV_BUFFER_SIZE)

SeriesTimer == IdleTimer(MaxSeriesCycles)

SeriesGpuTask ==
    IF trail.ticks <= MaxRacedCycles THEN GpuTask
    ELSE (\A task \in tasks : task.kind # "cpu") /\ PollGpuTask

NextSeries ==
    \/ SeriesTimer
    \/ RuntimeDispatch
    \/ Poll_UpdateHardwareData
    \/ PollCpuTask
    \/ SeriesGpuTask
    \/ Poll_CpuValuesUpdated
    \/ Poll_GpuValuesUpdated

SpecSeries == InitSeries /\ [][NextSeries]_vars

---------------------------------------------------------------------------
(* Specification of a machine with two GPUs of one vendor: poll cycles one *)
(* after the other, every query and every write succeeds, and the two      *)
(* GPUs' sensors can show different values.                                *)

MaxVendorCycles == 2     \* timer ticks per behaviour of SpecVendors

VendorBrands == <<"GpuNvidia", "GpuNvidia">>

VendorGpuSamples ==                 \* hundredths of a degree Celsius
    { [core_temp |-> 4000, memory_junction_temp |-> 6000],
      [core_temp |-> 5500, memory_junction_temp |-> 7000] }

InitVendors ==
    /\ IndexIdle
    /\ \E selected \in {"Celsius", "Fahrenheit"} :
          PollIdle(selected, <<Bytes_Core_Tctl_Tdie, Bytes_CPU_Package>>, VendorBrands)
    /\ ViewIdle
    /\ StatsIdle
    /\ LogNewState(TRUE, DEV_BUFFER_SIZE)

VendorTimer == IdleTimer(MaxVendorCycles)

VendorGpuTask == GpuTaskRun(FALSE, VendorGpuSamples)

NextVendors ==
    \/ VendorTimer
    \/ RuntimeDispatch
    \/ Poll_UpdateHardwareData
    \/ PollCpuTask
    \/ VendorGpuTask
    \/ Poll_CpuValuesUpdated
    \/ Poll_GpuValuesUpdated

SpecVendors == InitVendors /\ [][NextVendors]_vars

---------------------------------------------------------------------------
(* Specification of sensor outages: poll cycles one after the other in     *)
(* which the CPU query can fail; GPU queries and writes succeed.           *)

MaxOutageCycles == 2     \* timer ticks per behaviour of SpecOutage

InitOutage ==
    /\ IndexIdle
    /\ \E selected \in {"Celsius", "Fahrenheit"} :
          PollIdle(selected, <<Bytes_Core_Tctl_Tdie, Bytes_CPU_Package>>, GpuBrands)
    /\ ViewIdle
    /\ StatsIdle
    /\ LogNewState(TRUE, DEV_BUFFER_SIZE)

OutageTimer == IdleTimer(MaxOutageCycles)

NextOutage ==
    \/ OutageTimer
    \/ RuntimeDispatch
    \/ Poll_UpdateHardwareData
    \/ CpuTask
    \/ PollGpuTask
    \/ Poll_CpuValuesUpdated
    \/ Poll_GpuValuesUpdated

SpecOutage == InitOutage /\ [][NextOutage]_vars

---------------------------------------------------------------------------
(* Claims about the rolling statistics *)

Ordered(lo, cur, hi) == lo <= cur /\ cur <= hi

StatsOrdered ==
    /\ ~cpu_data.first_run =>
          Ordered(cpu_data.temp_min, cpu_data.temp, cpu_data.temp_max)
    /\ Ordered(cpu_data.usage_min, cpu_data.usage, cpu_data.usage_max)
    /\ ~gpu_data.first_run =>
          /\ Ordered(gpu_data.core_temp_min, gpu_data.core_temp, gpu_data.core_temp_max)
          /\ Ordered(gpu_data.memory_junction_temp_min, gpu_data.memory_junction_temp,
                     gpu_data.memory_junction_temp_max)

StatsMonotone ==
    /\ ~cpu_data.first_run =>
          /\ cpu_data'.temp_max >= cpu_data.temp_max
          /\ cpu_data'.temp_min <= cpu_data.temp_min
    /\ cpu_data'.usage_max >= cpu_data.usage_max
    /\ cpu_data'.usage_min <= cpu_data.usage_min
    /\ ~gpu_data.first_run =>
          /\ gpu_data'.core_temp_max >= gpu_data.core_temp_max
          /\ gpu_data'.core_temp_min <= gpu_data.core_temp_min
          /\ gpu_data'.memory_junction_temp_max >= gpu_data.memory_junction_temp_max
          /\ gpu_data'.memory_junction_temp_min <= gpu_data.memory_junction_temp_min

\* C1: after every update of a DeviceStats min <= current <= max, and from
\* one update to the next the max never decreases and the min never increases.
C1_MinMaxBracketCurrent == [](StatsOrdered) /\ [][StatsMonotone]_vars

\* C1 witness: the CPU temperature went up and came part of the way down again,
\* and the GPU has seen two different readings.
C1_Witness ==
    /\ Len(fed.cpu_temp) >= 3
    /\ cpu_data.temp_min < cpu_data.temp
    /\ cpu_data.temp < cpu_data.temp_max
    /\ Len(fed.gpu_core) >= 2
    /\ gpu_data.core_temp_min < gpu_data.core_temp_max

\* C2: after the first update of a DeviceStats min = max = current = the first
\* sample, for the CPU temperature and for both GPU temperatures.
C2_FirstSampleSeedsMinAndMax ==
    /\ Len(fed.cpu_temp) = 1 =>
          /\ cpu_data.temp = fed.cpu_temp[1]
          /\ cpu_data.temp_min = fed.cpu_temp[1]
          /\ cpu_data.temp_max = fed.cpu_temp[1]
    /\ Len(fed.gpu_core) = 1 =>
          /\ gpu_data.core_temp = fed.gpu_core[1]
          /\ gpu_data.core_temp_min = fed.gpu_core[1]
          /\ gpu_data.core_temp_max = fed.gpu_core[1]
          /\ gpu_data.memory_junction_temp = fed.gpu_mj[1]
          /\ gpu_data.memory_junction_temp_min = fed.gpu_mj[1]
          /\ gpu_data.memory_junction_temp_max = fed.gpu_mj[1]

\* the history `hist` is the window of the most recent 30 of the samples `all`,
\* and `avg` is their rounded mean once more than 30 samples were seen
IsWindowOf(hist, all, avg) ==
    /\ Len(hist) <= TEMP_AVG_WINDOW_SIZE
    /\ hist = LastN(all, TEMP_AVG_WINDOW_SIZE)
    /\ Len(all) > TEMP_AVG_WINDOW_SIZE =>
          avg = RoundDiv(SumSeq(LastN(all, TEMP_AVG_WINDOW_SIZE)), TEMP_AVG_WINDOW_SIZE)

\* C3: every history window (CPU temperature, CPU usage, GPU core temperature,
\* GPU memory-junction temperature) holds the most recent 30 samples only, in
\* arrival order, and after 31 or more updates average() is their mean.
C3_HistoryWindowBounded ==
    /\ IsWindowOf(cpu_data.temp_avg, fed.cpu_temp, get_temp_avg(cpu_data))
    /\ IsWindowOf(cpu_data.usage_avg, fed.cpu_usage, get_usage_avg(cpu_data))
    /\ gpu_data.core_temp_avg # <<>> =>
          IsWindowOf(gpu_data.core_temp_avg, fed.gpu_core, get_core_temp_avg(gpu_data))
    /\ gpu_data.memory_junction_temp_avg # <<>> =>
          IsWindowOf(gpu_data.memory_junction_temp_avg, fed.gpu_mj,
                     get_memory_junction_temp_avg(gpu_data))

\* the CPU half of C3 alone
CpuHistoryWindowBounded ==
    /\ IsWindowOf(cpu_data.temp_avg, fed.cpu_temp, get_temp_avg(cpu_data))
    /\ IsWindowOf(cpu_data.usage_avg, fed.cpu_usage, get_usage_avg(cpu_data))

---------------------------------------------------------------------------
(* Claims about the log store *)

WriteStep == last'.n = last.n + 1 /\ last'.op = "write"

FlushStep == last'.n = last.n + 1 /\ last'.op = "flush"

Rows(entries) == [i \in 1..Len(entries) |-> SerializeEntry(entries[i])]

Elems(seq) == {seq[i] : i \in 1..Len(seq)}

\* the entry is a line of the file at p
InFile(e, fsys, p) == Exists(fsys, p) /\ SerializeEntry(e) \in Elems(fsys[p])

NonEmptyFile(fsys, p) == Exists(fsys, p) /\ fsys[p] # <<>>

\* C4: a write on a new calendar day flushes the pending entries to the old
\* day's file before it switches: afterwards two distinct non-empty files
\* exist, the entries written before the rollover are in the old file, the
\* entries of this write are in the new file (or wait in the write buffer below
\* the threshold), and none is lost.  Stated for writes that meet no I/O
\* failure and with no file deleted.
C4_RotationKeepsEntriesApart ==
    [][ (WriteStep /\ today # logger.timestamp /\ last'.io = "none"
            /\ faults = 0 /\ deletions = 0)
        => /\ last'.res = "Ok"
           /\ logger'.path # logger.path
           /\ NonEmptyFile(fs', logger.path)
           /\ NonEmptyFile(fs', logger'.path)
           /\ \A e \in Elems(logger.write_buffer) :
                 InFile(e, fs', logger.path) /\ ~InFile(e, fs', logger'.path)
           /\ \A e \in Elems(last'.entries) :
                 /\ ~InFile(e, fs', logger.path)
                 /\ InFile(e, fs', logger'.path) \/ e \in Elems(logger'.write_buffer)
                 /\ logger.write_buffer_size = DEV_BUFFER_SIZE => InFile(e, fs', logger'.path)
      ]_vars

\* C5: a flush_buffer call that returns an error leaves the write buffer as it
\* was when flush_buffer was called, both when called directly and when
\* called by write (before a rotation, or at the threshold after the new
\* entries were appended).
C5_FailedFlushKeepsBuffer ==
    [][ /\ (FlushStep /\ last'.res = "Err")
            => logger'.write_buffer = logger.write_buffer
        /\ (WriteStep /\ last'.res = "Err" /\ today = logger.timestamp)
            => logger'.write_buffer = logger.write_buffer \o last'.entries
        /\ (WriteStep /\ last'.res = "Err" /\ today # logger.timestamp
              /\ logger'.timestamp = logger.timestamp)
            => logger'.write_buffer = logger.write_buffer
      ]_vars

\* C5 witness: an explicit flush failed on an I/O error with entries pending
C5_Witness ==
    /\ last.op = "flush"
    /\ last.res = "Err"
    /\ last.io = "flush"
    /\ logger.write_buffer # <<>>

\* C6: the graph buffer holds exactly the most recent min(n, 1000) of the
\* entries written, in arrival order, and a flush leaves it unchanged.
C6_GraphBufferKeepsNewest ==
    /\ [](/\ Len(logger.graph_data_buffer) <= GRAPH_DATA_BUFFER_MAX
          /\ logger.graph_data_buffer = LastN(issued, GRAPH_DATA_BUFFER_MAX))
    /\ [][FlushStep => logger'.graph_data_buffer = logger.graph_data_buffer]_vars

\* C6 witness: more than 1000 entries were written, the oldest were evicted,
\* and a flush has just run
C6_Witness ==
    /\ Len(issued) > GRAPH_DATA_BUFFER_MAX
    /\ Len(logger.graph_data_buffer) = GRAPH_DATA_BUFFER_MAX
    /\ logger.graph_data_buffer[1].timestamp = Len(issued) - GRAPH_DATA_BUFFER_MAX + 1
    /\ last.op = "flush"

\* the part of C7 about the write buffer alone
WriteOkBelowThreshold ==
    (last.op = "write" /\ last.res = "Ok")
        => Len(logger.write_buffer) < logger.write_buffer_size

\* C7: when write returns Ok the write buffer is below the threshold and the
\* graph buffer holds the written entries; with threshold 1 the write buffer
\* is empty and every written entry is read back from the file.
C7_WriteOkFlushesAtThreshold ==
    (last.op = "write" /\ last.res = "Ok")
        => /\ Len(logger.write_buffer) < logger.write_buffer_size
           /\ Elems(last.entries) \subseteq Elems(logger.graph_data_buffer)
           /\ logger.write_buffer_size = DEV_BUFFER_SIZE
                => /\ logger.write_buffer = <<>>
                   /\ Read(logger, fs).res = "Ok"
                   /\ Elems(last.entries) \subseteq Elems(Read(logger, fs).entries)

\* C8: flush_buffer on an empty write buffer returns Ok, leaves every file as
\* it was and leaves the graph buffer unchanged.
C8_EmptyFlushIsNoOp ==
    [][ (FlushStep /\ logger.write_buffer = <<>>)
        => /\ last'.res = "Ok"
           /\ fs' = fs
           /\ logger'.graph_data_buffer = logger.graph_data_buffer
      ]_vars

\* the part of C8 that holds: with the log file in place
EmptyFlushOnExistingFileIsNoOp ==
    [][ (FlushStep /\ logger.write_buffer = <<>> /\ Exists(fs, logger.path))
        => /\ last'.res = "Ok"
           /\ fs' = fs
           /\ logger'.graph_data_buffer = logger.graph_data_buffer
      ]_vars

HeaderCount(lines) == Cardinality({i \in 1..Len(lines) : lines[i] = HeaderRow})

\* C9: a flush_buffer call (meeting no I/O failure) that finds the log file
\* deleted leaves it recreated as one header row followed by the buffered
\* entries, with the write buffer cleared; no file ever holds two header rows.
C9_DeletedFileRecreatedWithHeader ==
    /\ [][ (FlushStep /\ last'.io = "none" /\ ~Exists(fs, logger.path))
           => /\ Exists(fs', logger.path)
              /\ fs'[logger.path] = <<HeaderRow>> \o Rows(logger.write_buffer)
              /\ logger'.write_buffer = <<>>
         ]_vars
    /\ [](\A p \in DOMAIN fs : HeaderCount(fs[p]) <= 1)

\* C10: after the entries were written and flushed (one day, no I/O failure,
\* no deletion) read returns exactly the written entries, in order.
C10_WriteFlushReadRoundTrip ==
    (/\ last.op = "flush" /\ last.res = "Ok"
     /\ faults = 0 /\ deletions = 0 /\ logger.timestamp = FirstDay)
        => Read(logger, fs) = [res |-> "Ok", entries |-> issued]

---------------------------------------------------------------------------
(* Claims about file naming and the log file index *)

\* C11: every file the log store writes to (the one CsvLogger::new opens as
\* well as every one opened on rotation) is named DD-MM-YYYY_hardware_logs.csv
\* for its calendar day, so that the index recognizes it and reads that date
\* from its name.
C11_StoreFilesFollowConvention ==
    \A p \in DOMAIN fs \cup {logger.path} :
        StripSuffix(FileName(p), Bytes_hardware_logs_csv) = <<FormatDate(DateOfDay(p.date))>>

ScanDone == scan.n > 0 /\ scan.io # "list"

\* the file of the last listing an index entry was built from
ListedAs(filename) == CHOOSE f \in scan.listing : f.filename = filename

Parsable(lines) ==
    lines = <<>> \/ \A i \in 2..Len(lines) : Len(lines[i]) = Len(lines[1])

\* the annotation fields of the rows: the column the header names selected_process
AnnotationsOf(lines) ==
    IF lines = <<>> \/ ColumnOf(Head(lines), "selected_process") = 0 THEN {}
    ELSE { lines[i][ColumnOf(Head(lines), "selected_process")] : i \in 2..Len(lines) }

\* C17: for every log file that parses, the index holds exactly the distinct
\* trimmed names before '=' of the comma-separated pieces of the rows'
\* annotation fields, and has_process_data tells whether some row carries a
\* non-empty annotation; a file without annotations has none and an empty set.
C17_IndexHoldsAnnotationNames ==
    (ScanDone /\ scan.io = "none") =>
        \A i \in 1..Len(log_files) :
            LET lines == ListedAs(log_files[i].filename).lines
            IN  Parsable(lines) =>
                  /\ log_files[i].processes =
                        UNION { ProcessNames(a) : a \in AnnotationsOf(lines) \ {<<>>} }
                  /\ log_files[i].has_process_data = (AnnotationsOf(lines) \ {<<>>} # {})

IsDigit(b) == 48 <= b /\ b <= 57

\* DD-MM-YYYY
IsDateString(s) ==
    /\ Len(s) = 10
    /\ s[3] = 45 /\ s[6] = 45
    /\ \A i \in {1, 2, 4, 5, 7, 8, 9, 10} : IsDigit(s[i])

Number(s) == IF s = <<>> THEN 0 ELSE SumSeq([i \in 1..Len(s) |-> (s[i] - 48) * 10 ^ (Len(s) - i)])

\* the calendar day a date string names, as a number that grows with the calendar
CalendarKey(s) ==
    Number(SubSeq(s, 7, 10)) * 10000 + Number(SubSeq(s, 4, 5)) * 100 + Number(SubSeq(s, 1, 2))

\* C18: after a directory scan the index lists the log files newest calendar
\* day first, whatever months and years the dates lie in.
C18_IndexNewestFirst ==
    ScanDone =>
        \A i, j \in 1..Len(log_files) :
            (i < j /\ IsDateString(log_files[i].date) /\ IsDateString(log_files[j].date))
                => CalendarKey(log_files[i].date) >= CalendarKey(log_files[j].date)

\* C19: a file whose name is not DD-MM-YYYY_hardware_logs.csv never appears
\* in the index.
C19_IndexSkipsOtherNames ==
    ScanDone => \A i \in 1..Len(log_files) : IsDateString(log_files[i].date)

FailsToParse(f) ==
    \/ scan.io = "read" /\ scan.bad = f.filename
    \/ ~Parsable(f.lines)

\* C20: a log file that fails to parse (its read fails, or a row is no valid
\* record) gets a metadata entry with zero entries and an empty token set, and
\* every other log file of the directory still gets its entry.
C20_CorruptFileYieldsEmptyMetadata ==
    ScanDone =>
        \A f \in scan.listing :
            (StripSuffix(f.filename, Bytes_hardware_logs_csv) # <<>>
             /\ ~(scan.io = "stat" /\ scan.bad = f.filename))
            => \E i \in 1..Len(log_files) :
                  /\ log_files[i].filename = f.filename
                  /\ FailsToParse(f) =>
                        /\ log_files[i].entry_count = 0
                        /\ log_files[i].processes = {}
                        /\ ~log_files[i].has_process_data

\* a scan met a file that fails to parse and indexed another file's rows
C20_Witness ==
    /\ ScanDone
    /\ \E i, j \in 1..Len(log_files) :
          /\ FailsToParse(ListedAs(log_files[i].filename))
          /\ log_files[i].entry_count = 0
          /\ log_files[j].entry_count > 0

---------------------------------------------------------------------------
(* Claims about the poll cycle *)

\* C12: every entry the application logs stores the temperature as the
\* Celsius value the sensor reported, whatever unit is selected.
C12_RowsStoreCelsius ==
    \A i \in 1..Len(issued) : issued[i].temperature = trail.celsius[i]

\* C13: a failing query of one device does not abort the others: no task
\* dies of it, and the GPU task's answer holds a reading for every GPU, the
\* zero reading for the GPU whose query failed and its own reading for every
\* other GPU.
C13_FailedQuerySparesSiblings ==
    /\ \A p \in trail.panics : p.cause # "transport"
    /\ \A i \in 1..Len(queue) :
          queue[i].kind = "gpu" =>
              /\ Len(queue[i].payload) = NumGpus
              /\ \A g \in 1..NumGpus : queue[i].payload[g] = queue[i].ghost.sensed[g].data

\* C14: a CPU none of whose sensors passes for the temperature sensor is
\* skipped: no task panics over it.
C14_MissingSensorIsNoPanic ==
    \A p \in trail.panics : p.cause # "no_sensor"

FirstNamed(sensors, name) ==
    IF \E i \in 1..Len(sensors) : sensors[i] = name
    THEN CHOOSE i \in 1..Len(sensors) :
            sensors[i] = name /\ \A j \in 1..(i - 1) : sensors[j] # name
    ELSE 0

FirstContaining(sensors, parts) ==
    IF \E i \in 1..Len(sensors) : \E part \in parts : Contains(sensors[i], part)
    THEN CHOOSE i \in 1..Len(sensors) :
            /\ \E part \in parts : Contains(sensors[i], part)
            /\ \A j \in 1..(i - 1) : \A part \in parts : ~Contains(sensors[j], part)
    ELSE 0

\* the sensor the priority list names: the first matcher that finds one decides
PriorityChoice(sensors) ==
    IF FirstNamed(sensors, Bytes_CPU_Package) # 0 THEN FirstNamed(sensors, Bytes_CPU_Package)
    ELSE IF FirstNamed(sensors, Bytes_Core_Tctl_Tdie) # 0
         THEN FirstNamed(sensors, Bytes_Core_Tctl_Tdie)
    ELSE IF FirstNamed(sensors, Bytes_CPU_Core) # 0 THEN FirstNamed(sensors, Bytes_CPU_Core)
    ELSE FirstContaining(sensors, {Bytes_Package, Bytes_Tctl})

\* C15: the temperature sensor a CPU task read is the one the matcher
\* priority names ("CPU Package" before "Core (Tctl/Tdie)" before a name that
\* contains "Package" or "Tctl"), wherever it stands in the sensor list.
C15_SensorChosenByPriority ==
    \A i \in 1..Len(queue) :
        (queue[i].kind = "cpu" /\ queue[i].ghost.chosen # 0)
            => queue[i].ghost.chosen = PriorityChoice(queue[i].ghost.sensors)

---------------------------------------------------------------------------
(* Claims about the entries the log store was handed *)

\* how often the row of entry e stands in the lines of a file
Occurrences(e, lines) == Cardinality({i \in 1..Len(lines) : lines[i] = SerializeEntry(e)})

RECURSIVE SumOver(_, _)
SumOver(f, S) ==
    IF S = {} THEN 0
    ELSE LET x == CHOOSE y \in S : TRUE IN f[x] + SumOver(f, S \ {x})

\* how often the row of entry e stands in the log files
TimesOnDisk(e, fsys) == SumOver([p \in DOMAIN fsys |-> Occurrences(e, fsys[p])], DOMAIN fsys)

\* C25: as long as the user deleted no file, every entry that was passed to
\* write is in a log file on disk or in the write buffer, whatever the calls
\* returned.
C25_NoEntryLost ==
    deletions = 0 =>
        \A i \in 1..Len(issued) :
            \/ issued[i] \in Elems(logger.write_buffer)
            \/ TimesOnDisk(issued[i], fs) > 0

\* C26: no entry's row stands more than once in the log files.
C26_NoEntryWrittenTwice ==
    \A i \in 1..Len(issued) : TimesOnDisk(issued[i], fs) <= 1

\* C27: as long as the user deleted no file, the open writer is the writer of
\* the file named by path, and the date in path is the store's date.
C27_WriterFollowsPath ==
    deletions = 0 =>
        /\ logger.wtr.path = logger.path
        /\ logger.path.date = logger.timestamp

---------------------------------------------------------------------------
(* Claims about the errors the application surfaces *)

\* C24: once a handler has attempted a write, last_error is set exactly
\* when the most recent CsvLogger::write returned an error; a failed write
\* ends the handler like a successful one.
C24_LastErrorTracksLastWrite ==
    last.op = "write" => (last_error = "Some" <=> last.res = "Err")

\* a write failed earlier and the most recent write succeeded: the error is cleared
C24_Witness ==
    /\ faults > 0
    /\ last.op = "write"
    /\ last.res = "Ok"
    /\ last_error = "None"

---------------------------------------------------------------------------
(* Claims about the history graphs *)

RECURSIVE Concat(_)
Concat(segs) == IF segs = <<>> THEN <<>> ELSE Head(segs) \o Concat(Tail(segs))

\* the positions in the series at which the segments start
SegmentStarts(segs) ==
    {1 + Len(Concat(SubSeq(segs, 1, k - 1))) : k \in 1..Len(segs)}

ExamplePoints == << <<0, 0>>, <<1, 1>>, <<10, 2>> >>

\* C21: the segments split_into_segments returns concatenate to the input,
\* none is empty, and a segment starts at the first point and exactly at
\* each point whose x exceeds the previous x by more than the threshold (not
\* at a gap equal to it); [[0,0],[0.5,1],[5,2]] gives [[0,0],[0.5,1]] and
\* [[5,2]], and the empty series gives no segment.
C21_SegmentsPartitionAtGaps ==
    segments # <<>> =>
        LET segs == segments[1]
        IN  /\ Concat(segs) = points
            /\ \A k \in 1..Len(segs) : segs[k] # <<>>
            /\ SegmentStarts(segs) =
                  {i \in 1..Len(points) :
                      i = 1 \/ points[i][1] - points[i - 1][1] > 2 * GAP_THRESHOLD_MINUTES}
            /\ points = ExamplePoints
                  => segs = << << <<0, 0>>, <<1, 1>> >>, << <<10, 2>> >> >>
            /\ points = <<>> => segs = <<>>

\* a series was cut that holds a gap above the threshold after a gap equal to it
C21_Witness ==
    /\ segments # <<>>
    /\ Len(points) = 3
    /\ points[2][1] - points[1][1] = 2 * GAP_THRESHOLD_MINUTES
    /\ points[3][1] - points[2][1] > 2 * GAP_THRESHOLD_MINUTES
    /\ Len(segments[1]) = 2

---------------------------------------------------------------------------
(* Claims about the live graphs *)

LatestX(series) == series[Len(series)][1]

\* the labels of a graph's series of one kind
LabelsOf(g, kind) == {l \in DOMAIN g.series : l[Len(l)] = kind}

RECURSIVE MaxOver(_, _)
MaxOver(f, S) ==
    IF S = {} THEN 0
    ELSE LET x == CHOOSE y \in S : TRUE
         IN  F64Max(f[x], MaxOver(f, S \ {x}))

\* <<latest x, view>> of every live graph that shows data: the CPU graphs
\* follow the CPU series, the GPU graph the latest of its power series
LiveViews ==
    {<<LatestX(plot_window.cpu_power_usage_graph.series[l]),
       plot_window.cpu_power_usage_graph.x_lim>> :
        l \in LabelsOf(plot_window.cpu_power_usage_graph, "CPU Power (W)")}
    \cup {<<LatestX(plot_window.temp_graph.series[l]), plot_window.temp_graph.x_lim>> :
            l \in LabelsOf(plot_window.temp_graph, "CPU Temperature")}
    \cup (IF LabelsOf(plot_window.gpu_power_usage_graph, "Power (W)") = {} THEN {}
          ELSE {<<MaxOver([l \in LabelsOf(plot_window.gpu_power_usage_graph, "Power (W)") |->
                             LatestX(plot_window.gpu_power_usage_graph.series[l])],
                          LabelsOf(plot_window.gpu_power_usage_graph, "Power (W)")),
                  plot_window.gpu_power_usage_graph.x_lim>>})

\* C22: the view of a live graph is a function of the latest point's x: it
\* is [latest + right_padding - window_size, latest + right_padding] if
\* latest + right_padding exceeds window_size and [0, window_size]
\* otherwise; x = 40 gives [0, 60] and x = 100 gives [52, 112]; the view is
\* window_size wide and contains a non-negative latest x.
C22_ViewFollowsLatest ==
    \A v \in LiveViews :
        LET latest == v[1]
            view == v[2]
        IN  /\ view = IF latest + right_padding > window_size
                      THEN <<latest + right_padding - window_size, latest + right_padding>>
                      ELSE <<0, window_size>>
            /\ latest = 40 => view = <<0, 60>>
            /\ latest = 100 => view = <<52, 112>>
            /\ view[2] - view[1] = window_size
            /\ latest >= 0 => view[1] <= latest /\ latest <= view[2]

\* the CPU graph has scrolled: its latest point is at x = 100
C22_Witness ==
    /\ <<100, <<52, 112>>>> \in LiveViews
    /\ plot_window.cpu_power_usage_graph.x_lim = <<52, 112>>

\* <<series before padding, series shown>> of the CPU series of the live graphs
CpuSeriesShown ==
    {<<CpuSeries(logger.graph_data_buffer,
                 plot_window.cpu_power_usage_graph.first_timestamp[1],
                 IF l = <<"CPU Power (W)">> THEN "power_draw" ELSE "usage"),
       plot_window.cpu_power_usage_graph.series[l]>> :
        l \in LabelsOf(plot_window.cpu_power_usage_graph, "CPU Power (W)")
               \cup LabelsOf(plot_window.cpu_power_usage_graph, "CPU Usage (%)")}
    \cup {<<CpuSeries(logger.graph_data_buffer, plot_window.temp_graph.first_timestamp[1],
                      "temperature"),
            plot_window.temp_graph.series[l]>> :
            l \in LabelsOf(plot_window.temp_graph, "CPU Temperature")}

\* C23: a non-empty live series of fewer than 33 points is shown with its
\* last point repeated up to exactly 33 points, the original points first
\* and in order; a series of 33 or more points is shown as it is.
C23_SeriesPadded ==
    \A p \in CpuSeriesShown :
        LET original == p[1]
            shown == p[2]
        IN  original # <<>> =>
              IF Len(original) < 33
              THEN /\ Len(shown) = 33
                   /\ SubSeq(shown, 1, Len(original)) = original
                   /\ \A k \in (Len(original) + 1)..33 : shown[k] = original[Len(original)]
              ELSE shown = original

\* a CPU series of 32 points is shown, one point short of the minimum
C23_Witness ==
    /\ CpuSeriesShown # {}
    /\ \A p \in CpuSeriesShown : Len(p[1]) = 32 /\ Len(p[2]) = 33

\* the entry a point of a live graph was drawn from: x is the entry's
\* timestamp less the graph's first timestamp, and the n-th entry logged has
\* timestamp n
EntryAt(g, point) == issued[point[1] + g.first_timestamp[1]]

\* every point of the graph's series labelled with the name of GPU i comes
\* from an entry logged for GPU i
OwnEntriesOnly(g) ==
    \A i \in 1..Len(gpus) : \A l \in DOMAIN g.series :
        (Len(l) = 2 /\ l[1] = gpus[i].name) =>
            \A k \in 1..Len(g.series[l]) :
                /\ EntryAt(g, g.series[l][k]).component_type = "GPU"
                /\ EntryAt(g, g.series[l][k]).model_name = gpus[i].name

\* C28: with two GPUs, the series of the live graphs labelled for GPU i hold
\* only entries that were logged for GPU i, after any number of poll
\* cycles, also after cycles in which a GPU entry was not appended to the
\* graph buffer.
C28_SeriesOfOwnGpu ==
    /\ OwnEntriesOnly(plot_window.temp_graph)
    /\ OwnEntriesOnly(plot_window.gpu_power_usage_graph)

---------------------------------------------------------------------------
(* Claims about the readings the poll cycle applies *)

\* C29: when the answer of a GPU task whose queries all succeeded is
\* applied, every GPU's current core temperature is the one its own sensors
\* showed, so two GPUs of one vendor whose sensors showed different values
\* end the cycle with different current values.
C29_EachGpuReadsItself ==
    [][\A m \in running :
          (m.kind = "gpu" /\ m \notin running' /\ m.payload # <<>>) =>
              /\ \A i \in 1..NumGpus :
                    gpus'[i].core_temp = m.ghost.sensed[i].data.core_temp
              /\ \A i, j \in 1..NumGpus :
                    m.ghost.sensed[i].data.core_temp # m.ghost.sensed[j].data.core_temp
                        => gpus'[i].core_temp # gpus'[j].core_temp]_vars

\* the message the CPU task posts when client.update_all() failed
IsZeroReading(m) == m.kind = "cpu" /\ m.ghost = NoGhost

\* C30: applying the zero reading a failed CPU query is answered with
\* leaves the CPU's running temperature minimum and maximum as they were.
C30_OutageKeepsExtremes ==
    [][\A m \in running :
          (IsZeroReading(m) /\ m \notin running') =>
              /\ cpu_data'.temp_min = cpu_data.temp_min
              /\ cpu_data'.temp_max = cpu_data.temp_max]_vars

=============================================================================
